---- MODULE Spec2Model ----
(***************************************************************************)
(* TokenVestingOptimized (contracts/TokenVestingOptimized.sol) as a state  *)
(* machine.  Every external function is one action.  For each function an  *)
(* operator xxxRevert gives the revert reason of a call in the current     *)
(* state ("ok" when it goes through); a call that reverts leaves every     *)
(* variable as it was.  ERC20 tokens are well-behaved: a transfer moves    *)
(* the amount or reverts on an insufficient balance.                       *)
(***************************************************************************)
EXTENDS Integers, Sequences, FiniteSets, TLC

\* ---------------------------------------------------------------- bounds
MaxTime == 3
MaxAmount == 2
MaxDuration == 2
MaxSchedules == 2
InitialSupply == 3
UintBits == 8
MaxExcess == 1

\* ------------------------------------------------------------- identities
ZERO == "0x0"
Owner == "owner"
Users == {"alice", "bob"}
Callers == {Owner} \cup Users
Contract == "this"
Holders == Callers \cup {Contract}
Tokens == {"TKA"}

UintMod == 2 ^ UintBits

VARIABLES vestingSchedules, beneficiarySchedules, vestingSchedulesCount,
          totalLockedTokens, paused, balances, now,
          call,       \* the view call just evaluated, or the transaction in
                      \* progress when execution is followed step by step
          audit,      \* what an observer outside the contract has seen of
                      \* it: the events emitted and the tokens it sent out
          wallet      \* the state of the client's Web3Service: its wallet
                      \* subjects, localStorage, the provider and the
                      \* asynchronous calls in flight

ledger == <<vestingSchedules, beneficiarySchedules, vestingSchedulesCount,
            totalLockedTokens, paused, balances>>
vars == <<vestingSchedules, beneficiarySchedules, vestingSchedulesCount,
          totalLockedTokens, paused, balances, now, call, audit, wallet>>

\* no view call evaluated, no transaction in progress
Idle == [fn |-> "none"]

\* nothing observed yet: no transaction, no event emitted by the last
\* successful transaction, and for each id no TokensReleased amount, no
\* token sent to its beneficiary and none refunded to the owner
NoAudit ==
    [tx |-> "none",
     emitted |-> <<>>,
     released |-> [id \in 0..MaxSchedules |-> 0],
     paid |-> [id \in 0..MaxSchedules |-> 0],
     refunded |-> [id \in 0..MaxSchedules |-> 0]]

\* the client application is not loaded
NoWallet == [loaded |-> FALSE]

\* ---------------------------------------------------------------- helpers
\* unchecked uint256 arithmetic wraps
SubU(a, b) == (a + UintMod - b) % UintMod
MulU(a, b) == (a * b) % UintMod

ZeroSchedule ==
    [beneficiary |-> ZERO, token |-> ZERO, totalAmount |-> 0, released |-> 0,
     startTime |-> 0, cliff |-> 0, duration |-> 0,
     revocable |-> FALSE, revoked |-> FALSE]

\* a mapping read: an id never written reads as the zero struct
schedule(vestingId) ==
    IF vestingId \in DOMAIN vestingSchedules
    THEN vestingSchedules[vestingId] ELSE ZeroSchedule

\* Faulty variant of VestingId: the counter is left out of the preimage and
\* every creation with equal arguments yields the same id.
VestingId_countIgnored(beneficiary, token, amount, startTime, timestamp, count) ==
    0

\* keccak256(abi.encodePacked(beneficiary, token, amount, startTime,
\* block.timestamp, vestingSchedulesCount)): the preimage holds the counter,
\* which only grows, and no function reads an id's content, so the hash
\* (collision-free) is named by the counter value it was computed with.
VestingId(beneficiary, token, amount, startTime, timestamp, count) ==
    count

\* Faulty variants of _computeReleasableAmount, used to show that the
\* properties below depend on it: after the end the whole total is returned
\* (released forgotten); the cliff gate is dropped.
computeReleasable_endIgnoresReleased(s, currentTime) ==
    IF currentTime < s.startTime + s.cliff THEN 0
    ELSE IF currentTime >= s.startTime + s.duration THEN s.totalAmount
         ELSE SubU(MulU(s.totalAmount, SubU(currentTime, s.startTime)) \div s.duration,
                   s.released)

computeReleasable_noCliff(s, currentTime) ==
    IF currentTime < s.startTime THEN 0
    ELSE IF currentTime >= s.startTime + s.duration
         THEN SubU(s.totalAmount, s.released)
         ELSE SubU(MulU(s.totalAmount, SubU(currentTime, s.startTime)) \div s.duration,
                   s.released)

_computeReleasableAmount(s, currentTime) ==
    IF currentTime < s.startTime + s.cliff THEN 0
    ELSE IF currentTime >= s.startTime + s.duration
         THEN SubU(s.totalAmount, s.released)
         ELSE LET timeElapsed == SubU(currentTime, s.startTime)
                  vestedAmount == MulU(s.totalAmount, timeElapsed) \div s.duration
              IN  SubU(vestedAmount, s.released)

computeReleasableAmount(vestingId) ==
    IF schedule(vestingId).revoked THEN 0
    ELSE _computeReleasableAmount(schedule(vestingId), now)

\* ERC20: balanceOf(address(this))
balanceOf(token) == balances[token][Contract]

\* ERC20 transfer of amount from one holder to another, on a balance map
move(bal, token, from, to, amount) ==
    [bal EXCEPT ![token] = [h \in Holders |->
        @[h] - (IF h = from THEN amount ELSE 0) + (IF h = to THEN amount ELSE 0)]]

\* ------------------------------------------------------------------- Init
Init ==
    /\ vestingSchedules = <<>>
    /\ beneficiarySchedules = [a \in Callers |-> <<>>]
    /\ vestingSchedulesCount = 0
    /\ totalLockedTokens = [t \in Tokens |-> 0]
    /\ paused = FALSE
    /\ balances = [t \in Tokens |-> [h \in Holders |->
                       IF h = Owner THEN InitialSupply ELSE 0]]
    /\ now = 0
    /\ call = Idle
    /\ audit = NoAudit
    /\ wallet = NoWallet

\* ------------------------------------------------- createVestingSchedule
\* Faulty variant of createRevert: the require on startTime is missing.
createRevert_noStartCheck(sender, a) ==
    IF sender # Owner THEN "OwnableUnauthorizedAccount"
    ELSE IF paused THEN "EnforcedPause"
    ELSE IF a.beneficiary = ZERO THEN "Zero address"
    ELSE IF a.token = ZERO THEN "Invalid token"
    ELSE IF a.amount = 0 THEN "Zero amount"
    ELSE IF a.duration = 0 THEN "Zero duration"
    ELSE IF a.cliff > a.duration THEN "Cliff > duration"
    ELSE IF schedule(VestingId(a.beneficiary, a.token, a.amount, a.startTime,
                               now, vestingSchedulesCount)).beneficiary # ZERO
         THEN "ID collision"
    ELSE IF balances[a.token][sender] < a.amount THEN "ERC20InsufficientBalance"
    ELSE IF totalLockedTokens[a.token] + a.amount >= UintMod THEN "Panic"
    ELSE "ok"

\* The revert reason of createVestingSchedule(a) called by sender, or "ok":
\* the modifiers, the requires in their order, then the token transfer.
createRevert(sender, a) ==
    IF sender # Owner THEN "OwnableUnauthorizedAccount"
    ELSE IF paused THEN "EnforcedPause"
    ELSE IF a.beneficiary = ZERO THEN "Zero address"
    ELSE IF a.token = ZERO THEN "Invalid token"
    ELSE IF a.amount = 0 THEN "Zero amount"
    ELSE IF a.duration = 0 THEN "Zero duration"
    ELSE IF a.cliff > a.duration THEN "Cliff > duration"
    ELSE IF a.startTime < now THEN "Start time in past"
    ELSE IF schedule(VestingId(a.beneficiary, a.token, a.amount, a.startTime,
                               now, vestingSchedulesCount)).beneficiary # ZERO
         THEN "ID collision"
    ELSE IF balances[a.token][sender] < a.amount THEN "ERC20InsufficientBalance"
    ELSE IF totalLockedTokens[a.token] + a.amount >= UintMod THEN "Panic"
    ELSE "ok"

\* Whether a call of createVestingSchedule gets as far as the token transfer
\* safeTransferFrom(msg.sender, address(this), amount): the modifiers, the
\* requires and the collision check above it pass.
createTransferInCalled(sender, a) ==
    createRevert(sender, a) \in {"ok", "ERC20InsufficientBalance", "Panic"}

newSchedule(beneficiary, amount, a) ==
    [beneficiary |-> beneficiary, token |-> a.token, totalAmount |-> amount,
     released |-> 0, startTime |-> a.startTime, cliff |-> a.cliff,
     duration |-> a.duration, revocable |-> a.revocable, revoked |-> FALSE]

\* mapping write: vestingSchedules[vestingId] = s
store(vs, vestingId, s) ==
    [k \in DOMAIN vs \cup {vestingId} |-> IF k = vestingId THEN s ELSE vs[k]]

createVestingSchedule(sender, a) ==
    LET err == createRevert(sender, a)
        vestingId == VestingId(a.beneficiary, a.token, a.amount, a.startTime,
                               now, vestingSchedulesCount)
    IN  /\ vestingSchedulesCount < MaxSchedules
        /\ IF err = "ok"
           THEN /\ balances' = move(balances, a.token, sender, Contract, a.amount)
                /\ totalLockedTokens' =
                       [totalLockedTokens EXCEPT ![a.token] = @ + a.amount]
                /\ vestingSchedules' =
                       store(vestingSchedules, vestingId,
                             newSchedule(a.beneficiary, a.amount, a))
                /\ beneficiarySchedules' =
                       [beneficiarySchedules EXCEPT ![a.beneficiary] = Append(@, vestingId)]
                /\ vestingSchedulesCount' = vestingSchedulesCount + 1
                /\ UNCHANGED <<paused, now>>
           ELSE UNCHANGED vars

\* The effect of a createVestingSchedule(a) that passes its requires, on a
\* ledger st given as a record: the transfer in, the locked total, the new
\* record under the new id, the index entry and the count.
createEffect(st, sender, a) ==
    LET vestingId == VestingId(a.beneficiary, a.token, a.amount, a.startTime,
                               now, st.count)
    IN  [vs |-> store(st.vs, vestingId, newSchedule(a.beneficiary, a.amount, a)),
         bs |-> [st.bs EXCEPT ![a.beneficiary] = Append(@, vestingId)],
         count |-> st.count + 1,
         locked |-> [st.locked EXCEPT ![a.token] = @ + a.amount],
         bal |-> move(st.bal, a.token, sender, Contract, a.amount)]

\* inputs of createVestingSchedule.  Valid ones: schedules that start now
\* and run MaxDuration, without a cliff or with the cliff at the very end
\* (with these two the cliff gate and the linear formula disagree), for each
\* beneficiary, amount and revocability.  Invalid ones: for each require one
\* input that violates it.
BaseArgs ==
    [beneficiary |-> "alice", token |-> CHOOSE t \in Tokens : TRUE, amount |-> 1,
     startTime |-> now, cliff |-> 0, duration |-> 1, revocable |-> TRUE]

ValidCreateArgs ==
    [beneficiary : Users, token : Tokens, amount : 1..MaxAmount,
     startTime : {now}, cliff : {0, MaxDuration},
     duration : {MaxDuration}, revocable : BOOLEAN]

InvalidCreateArgs ==
    {[BaseArgs EXCEPT !.beneficiary = ZERO], [BaseArgs EXCEPT !.token = ZERO],
     [BaseArgs EXCEPT !.amount = 0], [BaseArgs EXCEPT !.duration = 0],
     [BaseArgs EXCEPT !.cliff = BaseArgs.duration + 1], [BaseArgs EXCEPT !.amount = InitialSupply + 1]}
    \cup (IF now > 0 THEN {[BaseArgs EXCEPT !.startTime = now - 1]} ELSE {})

\* --------------------------------------------- batchCreateVestingSchedules
RECURSIVE sum(_)
sum(amounts) ==
    IF amounts = <<>> THEN 0 ELSE Head(amounts) + sum(Tail(amounts))

\* Faulty variant of firstBadEntry: only the first entry is validated.
firstBadEntry_onlyFirst(a) ==
    IF Len(a.beneficiaries) >= 1 /\ Len(a.amounts) >= 1
       /\ (a.beneficiaries[1] = ZERO \/ a.amounts[1] = 0)
    THEN 1 ELSE 0

\* the first entry, in loop order, that fails a require of the creation loop
\* (0 when every entry passes)
firstBadEntry(a) ==
    LET bad == {i \in 1..Len(a.beneficiaries) :
                    a.beneficiaries[i] = ZERO \/ a.amounts[i] = 0}
    IN  IF bad = {} THEN 0 ELSE CHOOSE i \in bad : \A j \in bad : i <= j

batchRevert(sender, a) ==
    IF sender # Owner THEN "OwnableUnauthorizedAccount"
    ELSE IF paused THEN "EnforcedPause"
    ELSE IF Len(a.beneficiaries) # Len(a.amounts) THEN "Length mismatch"
    ELSE IF Len(a.beneficiaries) = 0 THEN "Empty arrays"
    ELSE IF a.token = ZERO THEN "Invalid token"
    ELSE IF a.duration = 0 THEN "Zero duration"
    ELSE IF a.cliff > a.duration THEN "Cliff > duration"
    ELSE IF a.startTime < now THEN "Start time in past"
    ELSE IF sum(a.amounts) >= UintMod THEN "Panic"
    ELSE IF balances[a.token][sender] < sum(a.amounts) THEN "ERC20InsufficientBalance"
    ELSE IF totalLockedTokens[a.token] + sum(a.amounts) >= UintMod THEN "Panic"
    ELSE IF firstBadEntry(a) = 0 THEN "ok"
    ELSE IF a.beneficiaries[firstBadEntry(a)] = ZERO THEN "Zero address"
    ELSE "Zero amount"

\* Whether a call of batchCreateVestingSchedules gets as far as the token
\* transfer IERC20(token).safeTransferFrom(msg.sender, address(this),
\* totalAmount): the modifiers and the requires above it pass and the sum of
\* the amounts does not overflow.  The per-entry requires come after it.
batchTransferInCalled(sender, a) ==
    /\ sender = Owner
    /\ ~paused
    /\ Len(a.beneficiaries) = Len(a.amounts)
    /\ Len(a.beneficiaries) > 0
    /\ a.token # ZERO
    /\ a.duration > 0
    /\ a.cliff <= a.duration
    /\ a.startTime >= now
    /\ sum(a.amounts) < UintMod

\* Faulty variant of batchLoop: the id of every entry is computed from the
\* count at the start of the call, so the entries overwrite one another.
RECURSIVE batchLoop_sameId(_, _, _, _, _, _)
batchLoop_sameId(a, i, vs, bs, count, ids) ==
    IF i > Len(a.beneficiaries)
    THEN [vs |-> vs, bs |-> bs, count |-> count + Len(a.beneficiaries), ids |-> ids]
    ELSE LET beneficiary == a.beneficiaries[i]
             amount == a.amounts[i]
             vestingId == VestingId(beneficiary, a.token, amount, a.startTime,
                                    now, count)
         IN  batchLoop_sameId(a, i + 1,
                 store(vs, vestingId, newSchedule(beneficiary, amount, a)),
                 [bs EXCEPT ![beneficiary] = Append(@, vestingId)],
                 count, Append(ids, vestingId))

\* the creation loop from entry i on: the store, the index and the count after
\* it, and the ids in input order
RECURSIVE batchLoop(_, _, _, _, _, _)
batchLoop(a, i, vs, bs, count, ids) ==
    IF i > Len(a.beneficiaries)
    THEN [vs |-> vs, bs |-> bs, count |-> count, ids |-> ids]
    ELSE LET beneficiary == a.beneficiaries[i]
             amount == a.amounts[i]
             vestingId == VestingId(beneficiary, a.token, amount, a.startTime,
                                    now, count)
         IN  batchLoop(a, i + 1,
                 store(vs, vestingId, newSchedule(beneficiary, amount, a)),
                 [bs EXCEPT ![beneficiary] = Append(@, vestingId)],
                 count + 1, Append(ids, vestingId))

batchCreateVestingSchedules(sender, a) ==
    LET err == batchRevert(sender, a)
        totalAmount == sum(a.amounts)
        done == batchLoop(a, 1, vestingSchedules, beneficiarySchedules,
                          vestingSchedulesCount, <<>>)
    IN  /\ vestingSchedulesCount + Len(a.beneficiaries) <= MaxSchedules
        /\ IF err = "ok"
           THEN /\ balances' = move(balances, a.token, sender, Contract, totalAmount)
                /\ totalLockedTokens' =
                       [totalLockedTokens EXCEPT ![a.token] = @ + totalAmount]
                /\ vestingSchedules' = done.vs
                /\ beneficiarySchedules' = done.bs
                /\ vestingSchedulesCount' = done.count
                /\ UNCHANGED <<paused, now>>
           ELSE UNCHANGED vars

BatchArgs(beneficiaries, amounts, p) ==
    [beneficiaries |-> beneficiaries, token |-> p.token, amounts |-> amounts,
     startTime |-> p.startTime, cliff |-> p.cliff, duration |-> p.duration,
     revocable |-> p.revocable]

\* inputs of batchCreateVestingSchedules: every valid batch of up to
\* MaxSchedules entries, and batches that fail each require, with the bad
\* entry at every position
ValidBatchArgs ==
    {BatchArgs(l[1], l[2], p) :
        l \in UNION {[1..n -> Users] \X [1..n -> 1..MaxAmount] : n \in 1..MaxSchedules},
        p \in {q \in ValidCreateArgs : q.beneficiary = "alice" /\ q.amount = 1}}

InvalidBatchArgs ==
    {BatchArgs(<<>>, <<>>, BaseArgs), BatchArgs(<<"alice">>, <<>>, BaseArgs),
     BatchArgs(<<"alice">>, <<1, 1>>, BaseArgs)}
    \cup {BatchArgs(<<"alice">>, <<1>>, p) : p \in InvalidCreateArgs}
    \cup UNION {{BatchArgs([i \in 1..n |-> IF i = k THEN ZERO ELSE "alice"],
                           [i \in 1..n |-> 1], BaseArgs),
                 BatchArgs([i \in 1..n |-> "bob"],
                           [i \in 1..n |-> IF i = k THEN 0 ELSE 1], BaseArgs)} :
                    n \in 1..MaxSchedules, k \in 1..MaxSchedules}

\* ------------------------------------------------------------------ release
\* Faulty variant of releaseRevert: the require on msg.sender is missing.
releaseRevert_noBeneficiaryCheck(sender, vestingId) ==
    LET s == schedule(vestingId)
        releasableAmount == _computeReleasableAmount(s, now)
    IN  IF paused THEN "EnforcedPause"
        ELSE IF s.revoked THEN "Revoked"
        ELSE IF s.beneficiary = ZERO THEN "Invalid schedule"
        ELSE IF releasableAmount = 0 THEN "Nothing to release"
        ELSE IF s.released + releasableAmount >= UintMod THEN "Panic"
        ELSE IF totalLockedTokens[s.token] < releasableAmount THEN "Panic"
        ELSE IF balanceOf(s.token) < releasableAmount THEN "ERC20InsufficientBalance"
        ELSE "ok"

\* Faulty variant of releaseRevert: the whenNotPaused modifier is missing.
releaseRevert_noPauseCheck(sender, vestingId) ==
    LET s == schedule(vestingId)
        releasableAmount == _computeReleasableAmount(s, now)
    IN  IF sender # s.beneficiary THEN "Not beneficiary"
        ELSE IF s.revoked THEN "Revoked"
        ELSE IF s.beneficiary = ZERO THEN "Invalid schedule"
        ELSE IF releasableAmount = 0 THEN "Nothing to release"
        ELSE IF s.released + releasableAmount >= UintMod THEN "Panic"
        ELSE IF totalLockedTokens[s.token] < releasableAmount THEN "Panic"
        ELSE IF balanceOf(s.token) < releasableAmount THEN "ERC20InsufficientBalance"
        ELSE "ok"

releaseRevert(sender, vestingId) ==
    LET s == schedule(vestingId)
        releasableAmount == _computeReleasableAmount(s, now)
    IN  IF paused THEN "EnforcedPause"
        ELSE IF sender # s.beneficiary THEN "Not beneficiary"
        ELSE IF s.revoked THEN "Revoked"
        ELSE IF s.beneficiary = ZERO THEN "Invalid schedule"
        ELSE IF releasableAmount = 0 THEN "Nothing to release"
        ELSE IF s.released + releasableAmount >= UintMod THEN "Panic"
        ELSE IF totalLockedTokens[s.token] < releasableAmount THEN "Panic"
        ELSE IF balanceOf(s.token) < releasableAmount THEN "ERC20InsufficientBalance"
        ELSE "ok"

\* Faulty variant of release: the payout is made but released is not raised.
release_releasedNotRaised(sender, vestingId) ==
    LET s == schedule(vestingId)
        releasableAmount == _computeReleasableAmount(s, now)
    IN  IF releaseRevert(sender, vestingId) = "ok"
        THEN /\ totalLockedTokens' =
                    [totalLockedTokens EXCEPT ![s.token] = @ - releasableAmount]
             /\ balances' = move(balances, s.token, Contract, s.beneficiary,
                                 releasableAmount)
             /\ UNCHANGED <<vestingSchedules, beneficiarySchedules,
                            vestingSchedulesCount, paused, now>>
        ELSE UNCHANGED vars

release(sender, vestingId) ==
    LET s == schedule(vestingId)
        releasableAmount == _computeReleasableAmount(s, now)
    IN  IF releaseRevert(sender, vestingId) = "ok"
        THEN /\ vestingSchedules' =
                    [vestingSchedules EXCEPT ![vestingId].released = @ + releasableAmount]
             /\ totalLockedTokens' =
                    [totalLockedTokens EXCEPT ![s.token] = @ - releasableAmount]
             /\ balances' = move(balances, s.token, Contract, s.beneficiary,
                                 releasableAmount)
             /\ UNCHANGED <<beneficiarySchedules, vestingSchedulesCount, paused, now>>
        ELSE UNCHANGED vars

\* ------------------------------------------------------------------- revoke
\* Faulty variant of refundAmount: released is read before it was raised.
refundAmount_staleReleased(s, releasableAmount) ==
    s.totalAmount - s.released

\* uint256 refundAmount = schedule.totalAmount - schedule.released, read
\* after released was raised by the releasable amount
refundAmount(s, releasableAmount) ==
    s.totalAmount - (s.released + releasableAmount)

\* Faulty variants of revokeRevert: the "Already revoked" require is
\* missing; the "Not revocable" require is missing.
revokeRevert_noRevokedCheck(sender, vestingId) ==
    LET s == schedule(vestingId)
        releasableAmount == _computeReleasableAmount(s, now)
        refund == refundAmount(s, releasableAmount)
    IN  IF sender # Owner THEN "OwnableUnauthorizedAccount"
        ELSE IF ~s.revocable THEN "Not revocable"
        ELSE IF s.beneficiary = ZERO THEN "Invalid schedule"
        ELSE IF s.released + releasableAmount >= UintMod THEN "Panic"
        ELSE IF balanceOf(s.token) < releasableAmount THEN "ERC20InsufficientBalance"
        ELSE IF refund < 0 THEN "Panic"
        ELSE IF totalLockedTokens[s.token] < refund THEN "Panic"
        ELSE IF balanceOf(s.token) - releasableAmount < refund
             THEN "ERC20InsufficientBalance"
        ELSE "ok"

revokeRevert_noRevocableCheck(sender, vestingId) ==
    LET s == schedule(vestingId)
        releasableAmount == _computeReleasableAmount(s, now)
        refund == refundAmount(s, releasableAmount)
    IN  IF sender # Owner THEN "OwnableUnauthorizedAccount"
        ELSE IF s.revoked THEN "Already revoked"
        ELSE IF s.beneficiary = ZERO THEN "Invalid schedule"
        ELSE IF s.released + releasableAmount >= UintMod THEN "Panic"
        ELSE IF balanceOf(s.token) < releasableAmount THEN "ERC20InsufficientBalance"
        ELSE IF refund < 0 THEN "Panic"
        ELSE IF totalLockedTokens[s.token] < refund THEN "Panic"
        ELSE IF balanceOf(s.token) - releasableAmount < refund
             THEN "ERC20InsufficientBalance"
        ELSE "ok"

revokeRevert(sender, vestingId) ==
    LET s == schedule(vestingId)
        releasableAmount == _computeReleasableAmount(s, now)
        refund == refundAmount(s, releasableAmount)
    IN  IF sender # Owner THEN "OwnableUnauthorizedAccount"
        ELSE IF ~s.revocable THEN "Not revocable"
        ELSE IF s.revoked THEN "Already revoked"
        ELSE IF s.beneficiary = ZERO THEN "Invalid schedule"
        ELSE IF s.released + releasableAmount >= UintMod THEN "Panic"
        ELSE IF balanceOf(s.token) < releasableAmount THEN "ERC20InsufficientBalance"
        ELSE IF refund < 0 THEN "Panic"
        ELSE IF totalLockedTokens[s.token] < refund THEN "Panic"
        ELSE IF balanceOf(s.token) - releasableAmount < refund
             THEN "ERC20InsufficientBalance"
        ELSE "ok"

\* Faulty variant of revoke: released is raised by the vested part but that
\* part is not transferred to the beneficiary.
revoke_payoutSkipped(sender, vestingId) ==
    LET s == schedule(vestingId)
        releasableAmount == _computeReleasableAmount(s, now)
        refund == refundAmount(s, releasableAmount)
    IN  IF revokeRevert(sender, vestingId) = "ok"
        THEN /\ vestingSchedules' =
                    [vestingSchedules EXCEPT
                        ![vestingId].released = @ + releasableAmount,
                        ![vestingId].revoked = TRUE]
             /\ totalLockedTokens' = [totalLockedTokens EXCEPT ![s.token] = @ - refund]
             /\ balances' = move(balances, s.token, Contract, Owner, refund)
             /\ UNCHANGED <<beneficiarySchedules, vestingSchedulesCount, paused, now>>
        ELSE UNCHANGED vars

revoke(sender, vestingId) ==
    LET s == schedule(vestingId)
        releasableAmount == _computeReleasableAmount(s, now)
        refund == refundAmount(s, releasableAmount)
    IN  IF revokeRevert(sender, vestingId) = "ok"
        THEN /\ vestingSchedules' =
                    [vestingSchedules EXCEPT
                        ![vestingId].released = @ + releasableAmount,
                        ![vestingId].revoked = TRUE]
             /\ totalLockedTokens' = [totalLockedTokens EXCEPT ![s.token] = @ - refund]
             /\ balances' = move(move(balances, s.token, Contract, s.beneficiary,
                                      releasableAmount),
                                 s.token, Contract, Owner, refund)
             /\ UNCHANGED <<beneficiarySchedules, vestingSchedulesCount, paused, now>>
        ELSE UNCHANGED vars

\* -------------------------------------------------------- changeBeneficiary
\* Faulty variant of _removeBeneficiarySchedule: the last element is popped
\* without having been moved into the place of the removed id.
_removeBeneficiarySchedule_popOnly(schedules, vestingId) ==
    LET hits == {i \in 1..Len(schedules) : schedules[i] = vestingId}
    IN  IF hits = {} THEN schedules
        ELSE SubSeq(schedules, 1, Len(schedules) - 1)

\* swap the first match with the last element and pop
_removeBeneficiarySchedule(schedules, vestingId) ==
    LET hits == {i \in 1..Len(schedules) : schedules[i] = vestingId}
    IN  IF hits = {} THEN schedules
        ELSE LET i == CHOOSE k \in hits : \A j \in hits : k <= j
             IN  SubSeq([schedules EXCEPT ![i] = schedules[Len(schedules)]],
                        1, Len(schedules) - 1)

changeBeneficiaryRevert(sender, vestingId, newBeneficiary) ==
    LET s == schedule(vestingId)
    IN  IF sender # Owner THEN "OwnableUnauthorizedAccount"
        ELSE IF newBeneficiary = ZERO THEN "Zero address"
        ELSE IF s.revoked THEN "Revoked"
        ELSE IF s.beneficiary = ZERO THEN "Invalid schedule"
        ELSE IF s.beneficiary = newBeneficiary THEN "Same beneficiary"
        ELSE "ok"

changeBeneficiary(sender, vestingId, newBeneficiary) ==
    LET oldBeneficiary == schedule(vestingId).beneficiary
    IN  IF changeBeneficiaryRevert(sender, vestingId, newBeneficiary) = "ok"
        THEN /\ vestingSchedules' =
                    [vestingSchedules EXCEPT ![vestingId].beneficiary = newBeneficiary]
             /\ beneficiarySchedules' =
                    [beneficiarySchedules EXCEPT
                        ![oldBeneficiary] = _removeBeneficiarySchedule(@, vestingId),
                        ![newBeneficiary] = Append(@, vestingId)]
             /\ UNCHANGED <<vestingSchedulesCount, totalLockedTokens, paused,
                            balances, now>>
        ELSE UNCHANGED vars

\* -------------------------------------------------------- emergencyWithdraw
\* Faulty variant of emergencyWithdrawRevert: the onlyOwner modifier is
\* missing.
emergencyWithdrawRevert_noOwnerCheck(sender, token, amount) ==
    IF balanceOf(token) < totalLockedTokens[token] THEN "Insufficient balance"
    ELSE IF amount > balanceOf(token) - totalLockedTokens[token] THEN "Exceeds available"
    ELSE "ok"

\* Faulty variant of emergencyWithdrawRevert: the amount is compared with
\* the whole balance, not with the balance less the locked total.
emergencyWithdrawRevert_noLockedCheck(sender, token, amount) ==
    IF sender # Owner THEN "OwnableUnauthorizedAccount"
    ELSE IF amount > balanceOf(token) THEN "Exceeds available"
    ELSE "ok"

emergencyWithdrawRevert(sender, token, amount) ==
    IF sender # Owner THEN "OwnableUnauthorizedAccount"
    ELSE IF balanceOf(token) < totalLockedTokens[token] THEN "Insufficient balance"
    ELSE IF amount > balanceOf(token) - totalLockedTokens[token] THEN "Exceeds available"
    ELSE "ok"

emergencyWithdraw(sender, token, amount) ==
    IF emergencyWithdrawRevert(sender, token, amount) = "ok"
    THEN /\ balances' = move(balances, token, Contract, Owner, amount)
         /\ UNCHANGED <<vestingSchedules, beneficiarySchedules, vestingSchedulesCount,
                        totalLockedTokens, paused, now>>
    ELSE UNCHANGED vars

\* ------------------------------------------ tokens sent to the contract
\* A holder sends one token straight to the contract's address, outside
\* the vesting functions (ERC20 transfer).
directTransfer(from, token) ==
    /\ balances[token][from] >= 1
    /\ balanceOf(token) - totalLockedTokens[token] < MaxExcess
    /\ balances' = move(balances, token, from, Contract, 1)
    /\ UNCHANGED <<vestingSchedules, beneficiarySchedules, vestingSchedulesCount,
                   totalLockedTokens, paused, now>>

\* ids a caller may pass: those created so far and ids never created
Ids == 0..MaxSchedules

\* ------------------------------------------------------------ pause/unpause
pauseRevert(sender) ==
    IF sender # Owner THEN "OwnableUnauthorizedAccount"
    ELSE IF paused THEN "EnforcedPause"
    ELSE "ok"

pause(sender) ==
    LET err == pauseRevert(sender)
    IN  IF err = "ok"
        THEN /\ paused' = TRUE
             /\ UNCHANGED <<vestingSchedules, beneficiarySchedules,
                            vestingSchedulesCount, totalLockedTokens, balances, now>>
        ELSE UNCHANGED vars

unpauseRevert(sender) ==
    IF sender # Owner THEN "OwnableUnauthorizedAccount"
    ELSE IF ~paused THEN "ExpectedPause"
    ELSE "ok"

unpause(sender) ==
    LET err == unpauseRevert(sender)
    IN  IF err = "ok"
        THEN /\ paused' = FALSE
             /\ UNCHANGED <<vestingSchedules, beneficiarySchedules,
                            vestingSchedulesCount, totalLockedTokens, balances, now>>
        ELSE UNCHANGED vars

\* ---------------------------------------------------------- time advances
AdvanceTime ==
    /\ now < MaxTime
    /\ now' = now + 1
    /\ UNCHANGED <<vestingSchedules, beneficiarySchedules, vestingSchedulesCount,
                   totalLockedTokens, paused, balances>>

\* ----------------------------------------------------------- transactions
\* Each transaction is a call by the owner with any input, or by another
\* account (every function but release is onlyOwner, so one input is enough
\* for those).
CreateCall ==
    /\ vestingSchedulesCount < MaxSchedules
    /\ \E c \in Callers :
         \E a \in (IF c = Owner THEN ValidCreateArgs \cup InvalidCreateArgs
                   ELSE {BaseArgs}) :
            createVestingSchedule(c, a)

BatchCall ==
    /\ vestingSchedulesCount < MaxSchedules
    /\ \E c \in Callers :
         \E a \in (IF c = Owner THEN ValidBatchArgs \cup InvalidBatchArgs
                   ELSE {BatchArgs(<<"alice">>, <<1>>, BaseArgs)}) :
            batchCreateVestingSchedules(c, a)

ReleaseCall == \E c \in Callers, id \in Ids : release(c, id)

RevokeCall == \E c \in Callers, id \in Ids : revoke(c, id)

ChangeBeneficiaryCall ==
    \E c \in Callers, id \in Ids :
        \E b \in (IF c = Owner THEN Users \cup {ZERO} ELSE {"alice"}) :
            changeBeneficiary(c, id, b)

EmergencyWithdrawCall ==
    \E c \in Callers, t \in Tokens :
        \E amount \in (IF c = Owner THEN 0..MaxAmount ELSE {0}) :
            emergencyWithdraw(c, t, amount)

DirectTransfer == \E t \in Tokens : directTransfer(Owner, t)

PauseCall == \E c \in Callers : pause(c)

UnpauseCall == \E c \in Callers : unpause(c)

\* Transactions run to completion one after the other.
Next ==
    /\ \/ AdvanceTime
       \/ CreateCall
       \/ BatchCall
       \/ ReleaseCall
       \/ RevokeCall
       \/ ChangeBeneficiaryCall
       \/ EmergencyWithdrawCall
       \/ DirectTransfer
       \/ PauseCall
       \/ UnpauseCall
    /\ call' = call
    /\ audit' = audit
    /\ wallet' = wallet

Spec == Init /\ [][Next]_vars

\* ================================================================= claims
\* The vested amount of a schedule at time t as the specification defines it
\* (section 4.1), in unbounded integers: the yardstick the claims use.
VestedRef(s, t) ==
    IF t < s.startTime + s.cliff THEN 0
    ELSE IF t >= s.startTime + s.duration THEN s.totalAmount
    ELSE (s.totalAmount * (t - s.startTime)) \div s.duration

Stored == DOMAIN vestingSchedules

\* sum of totalAmount - released over the non-revoked schedules of a token
RECURSIVE OutstandingUpTo(_, _)
OutstandingUpTo(token, n) ==
    IF n = 0 THEN 0
    ELSE OutstandingUpTo(token, n - 1)
         + (IF /\ (n - 1) \in Stored
               /\ vestingSchedules[n - 1].token = token
               /\ ~vestingSchedules[n - 1].revoked
            THEN vestingSchedules[n - 1].totalAmount - vestingSchedules[n - 1].released
            ELSE 0)

Outstanding(token) == OutstandingUpTo(token, vestingSchedulesCount)

\* C1: every stored schedule has 0 <= released <= totalAmount, in every state
\* reachable by creates, batch creates, releases, revokes, beneficiary
\* changes, emergency withdrawals, pause/unpause and time advances.
C1_ReleasedWithinTotal ==
    \A id \in Stored :
        /\ 0 <= vestingSchedules[id].released
        /\ vestingSchedules[id].released <= vestingSchedules[id].totalAmount

\* C1 witness: a schedule released in full and a revoked one paid in part.
C1_Witness ==
    /\ \E id \in Stored :
          /\ ~vestingSchedules[id].revoked
          /\ vestingSchedules[id].released = vestingSchedules[id].totalAmount
    /\ \E id \in Stored :
          /\ vestingSchedules[id].revoked
          /\ 0 < vestingSchedules[id].released
          /\ vestingSchedules[id].released < vestingSchedules[id].totalAmount

\* C2: no release before unlock.  In every state every schedule has
\* released <= vested(now); while now < startTime + cliff its released is 0,
\* no release call on it goes through whoever calls, and the call of its
\* beneficiary (ledger not paused, schedule not revoked) fails with
\* "Nothing to release" (NothingDue).
C2_NoReleaseBeforeUnlock ==
    \A id \in Stored :
        LET s == vestingSchedules[id]
        IN  /\ s.released <= VestedRef(s, now)
            /\ now < s.startTime + s.cliff =>
                  /\ s.released = 0
                  /\ \A c \in Callers : releaseRevert(c, id) # "ok"
                  /\ (~paused /\ ~s.revoked) =>
                        releaseRevert(s.beneficiary, id) = "Nothing to release"

\* C2 witness: a schedule after its start and before its cliff, where the
\* linear formula alone would already give a positive amount.
C2_Witness ==
    \E id \in Stored :
        LET s == vestingSchedules[id]
        IN  /\ now < s.startTime + s.cliff
            /\ (s.totalAmount * (now - s.startTime)) \div s.duration > 0
            /\ ~paused /\ ~s.revoked
            /\ releaseRevert(s.beneficiary, id) = "Nothing to release"

\* C3: no double release.  When release(id) goes through, the same call made
\* again in the state it leaves (no time elapsed) reverts with "Nothing to
\* release" (NothingDue); a reverted call changes no variable, so it
\* transfers nothing and leaves released and the locked total as they were.
C3_NoDoubleRelease ==
    [][\A c \in Callers, id \in Ids :
          (releaseRevert(c, id) = "ok" /\ release(c, id))
              => (releaseRevert(c, id) = "Nothing to release")']_vars

\* C3 witness: a partly released schedule whose beneficiary has nothing due.
C3_Witness ==
    \E id \in Stored :
        LET s == vestingSchedules[id]
        IN  /\ ~s.revoked /\ ~paused
            /\ 0 < s.released /\ s.released < s.totalAmount
            /\ releaseRevert(s.beneficiary, id) = "Nothing to release"

\* C4: solvency.  For every token the contract's balance is at least the sum
\* of totalAmount - released over the token's non-revoked schedules.
C4_Solvency ==
    \A t \in Tokens : balanceOf(t) >= Outstanding(t)

\* C4 witness: a revoked schedule whose beneficiary and owner were both paid,
\* next to a schedule still owed, with the balance exactly what is owed.
C4_Witness ==
    \E t \in Tokens :
        /\ Outstanding(t) > 0
        /\ balanceOf(t) = Outstanding(t)
        /\ \E id \in Stored :
              /\ vestingSchedules[id].revoked
              /\ 0 < vestingSchedules[id].released
              /\ vestingSchedules[id].released < vestingSchedules[id].totalAmount

\* C5: the tracked locked total of every token equals the sum of
\* totalAmount - released over the token's non-revoked schedules.
C5_LockedTotalExact ==
    \A t \in Tokens : totalLockedTokens[t] = Outstanding(t)

\* C6: revocation payout split.  The owner's revoke of a stored, revocable,
\* non-revoked schedule always goes through, and with released = r at time
\* now it moves exactly vested(now) - r to the beneficiary and exactly
\* totalAmount - vested(now) to the owner, out of the contract's balance, and
\* leaves released = vested(now) and revoked = TRUE.
C6_RevokeSplit ==
    /\ [](\A id \in Stored :
             (vestingSchedules[id].revocable /\ ~vestingSchedules[id].revoked)
                 => revokeRevert(Owner, id) = "ok")
    /\ [][\A id \in Stored :
             (revokeRevert(Owner, id) = "ok" /\ revoke(Owner, id)) =>
                 LET s == vestingSchedules[id]
                     v == VestedRef(s, now)
                 IN  /\ balances'[s.token][s.beneficiary] =
                            balances[s.token][s.beneficiary] + (v - s.released)
                     /\ balances'[s.token][Owner] =
                            balances[s.token][Owner] + (s.totalAmount - v)
                     /\ balances'[s.token][Contract] =
                            balances[s.token][Contract] - (s.totalAmount - s.released)
                     /\ vestingSchedules'[id].released = v
                     /\ vestingSchedules'[id].revoked]_vars

\* C6 witness: a schedule revoked in mid-vesting: part of it went to the
\* beneficiary, the rest back to the owner.
C6_Witness ==
    \E id \in Stored :
        LET s == vestingSchedules[id]
        IN  /\ s.revoked
            /\ 0 < s.released /\ s.released < s.totalAmount
            /\ balances[s.token][s.beneficiary] >= s.released
            /\ balanceOf(s.token) = 0

\* C7: revoked is terminal.  A revoked schedule's record never changes again
\* (it stays revoked, released stays), and every release, revoke and
\* changeBeneficiary call on it reverts, whoever calls.
C7_RevokedIsTerminal ==
    /\ [](\A id \in Stored : vestingSchedules[id].revoked =>
             \A c \in Callers :
                 /\ releaseRevert(c, id) # "ok"
                 /\ revokeRevert(c, id) # "ok"
                 /\ \A b \in Users \cup {ZERO} :
                        changeBeneficiaryRevert(c, id, b) # "ok")
    /\ [][\A id \in Stored : vestingSchedules[id].revoked =>
             vestingSchedules'[id] = vestingSchedules[id]]_vars

\* C7 witness: a revoked schedule for which more has vested since.
C7_Witness ==
    \E id \in Stored :
        LET s == vestingSchedules[id]
        IN  s.revoked /\ ~paused /\ s.released < VestedRef(s, now)

\* C8: a schedule created with revocable = FALSE keeps that flag and never
\* becomes revoked: the owner's revoke reverts with "Not revocable"
\* (InvalidState), and nobody else's revoke goes through either.
C8_NonRevocableNeverRevoked ==
    /\ [](\A id \in Stored : ~vestingSchedules[id].revocable =>
             /\ ~vestingSchedules[id].revoked
             /\ revokeRevert(Owner, id) = "Not revocable"
             /\ \A c \in Callers : revokeRevert(c, id) # "ok")
    /\ [][\A id \in Stored :
             vestingSchedules'[id].revocable = vestingSchedules[id].revocable]_vars

\* C8 witness: a non-revocable schedule in mid-vesting, part of it unvested.
C8_Witness ==
    \E id \in Stored :
        LET s == vestingSchedules[id]
        IN  /\ ~s.revocable
            /\ 0 < VestedRef(s, now) /\ VestedRef(s, now) < s.totalAmount
            /\ revokeRevert(Owner, id) = "Not revocable"

\* C9 as claimed: a non-revoked schedule with now >= startTime + duration
\* never becomes revoked.
C9_CompletedNeverRevoked ==
    [][\A id \in Stored :
          (/\ ~vestingSchedules[id].revoked
           /\ now >= vestingSchedules[id].startTime + vestingSchedules[id].duration)
              => ~vestingSchedules'[id].revoked]_vars

\* C9 as amended: a non-revoked schedule with now >= startTime + duration can
\* become revoked exactly when it is revocable (the owner's revoke then goes
\* through, otherwise it reverts); that revoke pays the whole unreleased
\* remainder to the beneficiary, nothing to the owner, and leaves
\* released = totalAmount.
C9_CompletedRevokeOnlyIfRevocable ==
    /\ [](\A id \in Stored :
             LET s == vestingSchedules[id]
             IN  (~s.revoked /\ now >= s.startTime + s.duration) =>
                     ((revokeRevert(Owner, id) = "ok") <=> s.revocable))
    /\ [][\A id \in Stored :
             LET s == vestingSchedules[id]
             IN  (/\ ~s.revoked
                  /\ now >= s.startTime + s.duration
                  /\ vestingSchedules'[id].revoked) =>
                     /\ s.revocable
                     /\ vestingSchedules'[id].released = s.totalAmount
                     /\ balances'[s.token][Owner] = balances[s.token][Owner]
                     /\ balances'[s.token][s.beneficiary] =
                            balances[s.token][s.beneficiary]
                            + (s.totalAmount - s.released)]_vars

\* C9 witness: a schedule revoked after its end (only then does a revoke
\* leave released = totalAmount).
C9_Witness ==
    \E id \in Stored :
        /\ vestingSchedules[id].revoked
        /\ vestingSchedules[id].released = vestingSchedules[id].totalAmount

HasBadEntry(a) ==
    \E i \in 1..Len(a.beneficiaries) :
        a.beneficiaries[i] = ZERO \/ (i <= Len(a.amounts) /\ a.amounts[i] = 0)

\* C12: batch creation is atomic.  A batch with a null beneficiary or a zero
\* amount at any position always reverts, and the call leaves the schedule
\* store, the beneficiary index, the count, the locked total and every token
\* balance as they were.
C12_BatchAtomic ==
    /\ [](\A a \in InvalidBatchArgs :
             HasBadEntry(a) => batchRevert(Owner, a) # "ok")
    /\ [][(vars' # vars) =>
             \A a \in InvalidBatchArgs :
                 HasBadEntry(a) => ~batchCreateVestingSchedules(Owner, a)]_vars

\* C12 witness: a batch of two whose second entry is the bad one gets as far
\* as the creation loop (the transfer and the first record are already made
\* when it reverts), with tokens and room for both schedules available.
C12_Witness ==
    \E a \in InvalidBatchArgs :
        /\ Len(a.beneficiaries) = 2
        /\ firstBadEntry(a) = 2
        /\ batchRevert(Owner, a) \in {"Zero address", "Zero amount"}
        /\ vestingSchedulesCount + 2 <= MaxSchedules
        /\ now > 0

\* C13 as claimed: batch creation validates before it transfers.  For a batch
\* with a null beneficiary or a zero amount at some position the call fails
\* without the token's transferFrom having been called.
C13_BatchValidatesBeforeTransfer ==
    \A a \in InvalidBatchArgs :
        HasBadEntry(a) => ~batchTransferInCalled(Owner, a)

\* the ledger as a record
LedgerState ==
    [vs |-> vestingSchedules, bs |-> beneficiarySchedules,
     count |-> vestingSchedulesCount, locked |-> totalLockedTokens,
     bal |-> balances]

\* the arguments of the single create that corresponds to entry i of a batch
entryArgs(a, i) ==
    [beneficiary |-> a.beneficiaries[i], token |-> a.token, amount |-> a.amounts[i],
     startTime |-> a.startTime, cliff |-> a.cliff, duration |-> a.duration,
     revocable |-> a.revocable]

\* the ledger after the single creates for entries i, i+1, ... of a batch
RECURSIVE createSeq(_, _, _, _)
createSeq(st, sender, a, i) ==
    IF i > Len(a.beneficiaries) THEN st
    ELSE createSeq(createEffect(st, sender, entryArgs(a, i)), sender, a, i + 1)

StoredSchedulesWellFormed ==
    \A id \in Stored :
        LET s == vestingSchedules[id]
        IN  /\ s.totalAmount > 0
            /\ s.duration > 0
            /\ s.cliff <= s.duration
            /\ s.beneficiary # ZERO
            /\ s.token # ZERO

\* the arguments of a single create break one of these conditions
BadCreateArgs(a) ==
    \/ a.amount = 0
    \/ a.duration = 0
    \/ a.cliff > a.duration
    \/ a.beneficiary = ZERO
    \/ a.token = ZERO

\* the arguments of a batch break one of these conditions
BadBatchArgs(a) ==
    \/ HasBadEntry(a)
    \/ a.duration = 0
    \/ a.cliff > a.duration
    \/ a.token = ZERO

\* C15 as claimed: every stored schedule has totalAmount > 0, duration > 0,
\* cliff <= duration, a non-null beneficiary and a non-null token, and a
\* single or batch create call that breaks one of these fails before any
\* token transfer is made.
C15_CreateValidatedFirst ==
    /\ StoredSchedulesWellFormed
    /\ \A a \in InvalidCreateArgs :
           BadCreateArgs(a) =>
               createRevert(Owner, a) # "ok" /\ ~createTransferInCalled(Owner, a)
    /\ \A a \in InvalidBatchArgs :
           BadBatchArgs(a) =>
               batchRevert(Owner, a) # "ok" /\ ~batchTransferInCalled(Owner, a)

\* The part of C15 that the code does keep: stored schedules are well
\* formed, invalid creates revert, and an invalid single create reverts
\* before its transfer.
C15_ValidatedPart ==
    /\ StoredSchedulesWellFormed
    /\ \A a \in InvalidCreateArgs :
           BadCreateArgs(a) =>
               createRevert(Owner, a) # "ok" /\ ~createTransferInCalled(Owner, a)
    /\ \A a \in InvalidBatchArgs :
           BadBatchArgs(a) => batchRevert(Owner, a) # "ok"

\* otherwise valid create arguments with a start time in the past
BackdatedArgs ==
    {[a EXCEPT !.startTime = t] : a \in ValidCreateArgs, t \in 0..(now - 1)}

C17_OnlyBeneficiaryReleases ==
    /\ [](\A id \in Stored, c \in Callers :
             c # vestingSchedules[id].beneficiary
                 => releaseRevert(c, id) = "Not beneficiary")
    /\ [][\A id \in Stored, b \in Users, old \in Users :
             (old = vestingSchedules[id].beneficiary
              /\ changeBeneficiaryRevert(Owner, id, b) = "ok"
              /\ changeBeneficiary(Owner, id, b)) =>
                 /\ (releaseRevert(old, id) # "ok")'
                 /\ (computeReleasableAmount(id) # 0 => releaseRevert(b, id) = "ok")']_vars

\* C17 as amended: while the ledger is not paused, release of a stored
\* schedule by anyone but its current beneficiary fails with "Not
\* beneficiary"; while it is paused it fails with EnforcedPause, the pause
\* check coming first.  Either way nothing changes.  Right after a
\* changeBeneficiary the old beneficiary's release fails, and the new
\* beneficiary's release goes through whenever the releasable amount is
\* nonzero and the ledger is not paused.
C17_OnlyBeneficiaryReleasesUnlessPaused ==
    /\ [](\A id \in Stored, c \in Callers :
             c # vestingSchedules[id].beneficiary
                 => releaseRevert(c, id) =
                        (IF paused THEN "EnforcedPause" ELSE "Not beneficiary"))
    /\ [][(vars' # vars) =>
             \A id \in Stored, c \in Callers :
                 c # vestingSchedules[id].beneficiary => ~release(c, id)]_vars
    /\ [][(vestingSchedules' # vestingSchedules) =>
           \A id \in Stored, b \in Users, old \in Users :
             (old = vestingSchedules[id].beneficiary
              /\ changeBeneficiaryRevert(Owner, id, b) = "ok"
              /\ changeBeneficiary(Owner, id, b)) =>
                 /\ vestingSchedules'[id].beneficiary = b
                 /\ (releaseRevert(old, id) # "ok")'
                 /\ (computeReleasableAmount(id) # 0 /\ ~paused
                        => releaseRevert(b, id) = "ok")'
                 /\ (paused => releaseRevert(b, id) = "EnforcedPause")']_vars

\* C17 witness: the only schedule has paid out to an earlier beneficiary
\* and now belongs to another account, which has received nothing yet and
\* has an amount due.
C17_Witness ==
    /\ vestingSchedulesCount = 1
    /\ ~paused
    /\ \E id \in Stored :
          LET s == vestingSchedules[id]
          IN  /\ s.released > 0
              /\ ~s.revoked
              /\ balances[s.token][s.beneficiary] = 0
              /\ \E c \in Users \ {s.beneficiary} : balances[s.token][c] = s.released
              /\ releaseRevert(s.beneficiary, id) = "ok"

\* C18: the owner-only functions (createVestingSchedule,
\* batchCreateVestingSchedules, revoke, changeBeneficiary, emergencyWithdraw,
\* pause, unpause) called by any other account revert with
\* OwnableUnauthorizedAccount whatever the arguments and the state, and such
\* a call changes no schedule, index, count, locked total, pause flag or
\* balance.
C18_OwnerOnly ==
    /\ [](\A c \in Users :
             /\ \A a \in ValidCreateArgs \cup InvalidCreateArgs :
                    createRevert(c, a) = "OwnableUnauthorizedAccount"
             /\ \A a \in ValidBatchArgs \cup InvalidBatchArgs :
                    batchRevert(c, a) = "OwnableUnauthorizedAccount"
             /\ \A id \in Ids :
                    /\ revokeRevert(c, id) = "OwnableUnauthorizedAccount"
                    /\ \A b \in Users \cup {ZERO} :
                           changeBeneficiaryRevert(c, id, b)
                               = "OwnableUnauthorizedAccount"
             /\ \A t \in Tokens, amount \in 0..MaxAmount :
                    emergencyWithdrawRevert(c, t, amount) = "OwnableUnauthorizedAccount"
             /\ pauseRevert(c) = "OwnableUnauthorizedAccount"
             /\ unpauseRevert(c) = "OwnableUnauthorizedAccount")
    /\ [][(vars' # vars) =>
             \A c \in Users :
                 /\ \A b \in Users, m \in 0..MaxAmount :
                        LET a == [BaseArgs EXCEPT !.beneficiary = b, !.amount = m]
                        IN  /\ ~createVestingSchedule(c, a)
                            /\ ~batchCreateVestingSchedules(c,
                                    BatchArgs(<<b>>, <<m>>, a))
                            /\ ~batchCreateVestingSchedules(c,
                                    BatchArgs(<<b, "alice">>, <<m, 1>>, a))
                 /\ \A id \in Ids :
                        /\ ~revoke(c, id)
                        /\ \A b \in Users \cup {ZERO} : ~changeBeneficiary(c, id, b)
                 /\ \A t \in Tokens, amount \in 0..MaxAmount :
                        ~emergencyWithdraw(c, t, amount)
                 /\ ~pause(c)
                 /\ ~unpause(c)]_vars

\* C18 witness: a state in which the owner could create, revoke, reassign,
\* sweep and pause, and a beneficiary calling the same functions is turned
\* away.
C18_Witness ==
    \E id \in Stored, c \in Users, t \in Tokens :
        /\ c = vestingSchedules[id].beneficiary
        /\ revokeRevert(Owner, id) = "ok"
        /\ revokeRevert(c, id) = "OwnableUnauthorizedAccount"
        /\ emergencyWithdrawRevert(Owner, t, 1) = "ok"
        /\ emergencyWithdrawRevert(c, t, 1) = "OwnableUnauthorizedAccount"
        /\ pauseRevert(Owner) = "ok"
        /\ \E a \in ValidCreateArgs : createRevert(Owner, a) = "ok"
        /\ vestingSchedulesCount < MaxSchedules
        /\ balances[t][c] > 0

\* the ids in a list of the beneficiary index
Range(seq) == {seq[i] : i \in 1..Len(seq)}

\* C19: beneficiary index consistency.  In every state, for every account b,
\* beneficiarySchedules[b] holds, without duplicates, exactly the ids of the
\* stored schedules whose beneficiary is b; a changeBeneficiary(id, new)
\* takes the id out of the old beneficiary's list, puts it into the new
\* one's, and keeps every other entry of both lists.
C19_IndexConsistent ==
    /\ [](\A b \in Callers :
             /\ Range(beneficiarySchedules[b])
                    = {id \in Stored : vestingSchedules[id].beneficiary = b}
             /\ Cardinality(Range(beneficiarySchedules[b]))
                    = Len(beneficiarySchedules[b]))
    /\ [][(vestingSchedules' # vestingSchedules) =>
           \A id \in Stored, new \in Users, old \in Users :
             (/\ old = vestingSchedules[id].beneficiary
              /\ changeBeneficiaryRevert(Owner, id, new) = "ok"
              /\ changeBeneficiary(Owner, id, new)) =>
                 /\ id \notin Range(beneficiarySchedules'[old])
                 /\ id \in Range(beneficiarySchedules'[new])
                 /\ Range(beneficiarySchedules'[old])
                        = Range(beneficiarySchedules[old]) \ {id}
                 /\ Range(beneficiarySchedules'[new])
                        = Range(beneficiarySchedules[new]) \cup {id}
                 /\ Len(beneficiarySchedules'[old]) = Len(beneficiarySchedules[old]) - 1
                 /\ Len(beneficiarySchedules'[new]) = Len(beneficiarySchedules[new]) + 1
                 /\ \A c \in Callers \ {old, new} :
                        beneficiarySchedules'[c] = beneficiarySchedules[c]]_vars

\* C19 witness: a list of the index holds the later id before the earlier
\* one, and another account's list lost its first entry and kept its second:
\* schedules were reassigned.
C19_Witness ==
    \/ \E b \in Users : beneficiarySchedules[b] = <<1, 0>>
    \/ \E b, c \in Users :
          /\ b # c
          /\ beneficiarySchedules[b] = <<1>>
          /\ beneficiarySchedules[c] = <<0>>
          /\ vestingSchedules[0].released > 0
          /\ balances[vestingSchedules[0].token][c] = 0

\* C20: emergencyWithdraw never dips into earmarked tokens.
\* emergencyWithdraw(token, amount) reverts whenever amount exceeds the
\* contract's current balance less totalLockedTokens[token] (so with the
\* balance equal to the locked total every amount > 0 reverts), and a
\* successful one moves amount from the contract to the owner and changes no
\* schedule, index, count or locked total.
C20_SweepOnlyExcess ==
    /\ [](\A t \in Tokens, amount \in 0..(InitialSupply + 1) :
             amount > balanceOf(t) - totalLockedTokens[t]
                 => emergencyWithdrawRevert(Owner, t, amount) # "ok")
    /\ [][(balances' # balances) =>
             \A t \in Tokens, amount \in 1..MaxAmount :
                 (/\ emergencyWithdrawRevert(Owner, t, amount) = "ok"
                  /\ emergencyWithdraw(Owner, t, amount)) =>
                     /\ amount <= balanceOf(t) - totalLockedTokens[t]
                     /\ balances'[t][Contract] = balances[t][Contract] - amount
                     /\ balances'[t][Owner] = balances[t][Owner] + amount
                     /\ balances'[t][Contract] >= totalLockedTokens'[t]
                     /\ UNCHANGED <<vestingSchedules, beneficiarySchedules,
                                    vestingSchedulesCount, totalLockedTokens,
                                    paused>>]_vars

\* C20 witness: the contract's balance is fully earmarked: it equals the
\* locked total, both positive, a sweep of 1 is refused and a sweep of 0 is
\* not.
C20_Witness ==
    \E t \in Tokens :
        /\ totalLockedTokens[t] > 0
        /\ balanceOf(t) = totalLockedTokens[t]
        /\ emergencyWithdrawRevert(Owner, t, 1) = "Exceeds available"
        /\ emergencyWithdrawRevert(Owner, t, 0) = "ok"
        /\ \E id \in Stored : vestingSchedules[id].released > 0

\* C21 as claimed: in every state the owner's emergencyWithdraw goes through
\* for every amount up to the contract's balance of a token less what the
\* token's non-revoked schedules still owe (totalAmount - released).
C21_ExcessRecoverable ==
    \A t \in Tokens, amount \in 0..InitialSupply :
        amount <= balanceOf(t) - Outstanding(t)
            => emergencyWithdrawRevert(Owner, t, amount) = "ok"

\* C23 as claimed: release, revoke and changeBeneficiary on an id that was
\* never created each fail with "Invalid schedule" (NotFound).
C23_NonexistentIsNotFound ==
    \A id \in Ids \ Stored :
        /\ \A c \in Callers : ~paused => releaseRevert(c, id) = "Invalid schedule"
        /\ revokeRevert(Owner, id) = "Invalid schedule"
        /\ \A b \in Users : changeBeneficiaryRevert(Owner, id, b) = "Invalid schedule"

\* What the code does for an id that was never created: release fails with
\* "Not beneficiary" (or EnforcedPause), revoke with "Not revocable", and
\* only changeBeneficiary with "Invalid schedule".
C23_NonexistentErrors ==
    \A id \in Ids \ Stored :
        /\ \A c \in Callers :
               releaseRevert(c, id) =
                   (IF paused THEN "EnforcedPause" ELSE "Not beneficiary")
        /\ revokeRevert(Owner, id) = "Not revocable"
        /\ \A b \in Users : changeBeneficiaryRevert(Owner, id, b) = "Invalid schedule"

\* ============================================================ view functions
\* getVestingInfo(vestingId): the stored fields, the releasable amount (0
\* for a revoked schedule) and vested = released + releasable, a checked
\* addition that reverts with Panic when it leaves the uint256 range.
getVestingInfo(vestingId) ==
    LET s == schedule(vestingId)
        releasableAmount == IF s.revoked THEN 0 ELSE _computeReleasableAmount(s, now)
    IN  IF s.released + releasableAmount >= UintMod
        THEN [revert |-> "Panic"]
        ELSE [revert |-> "ok",
              beneficiary |-> s.beneficiary, token |-> s.token,
              totalAmount |-> s.totalAmount, released |-> s.released,
              releasable |-> releasableAmount,
              vested |-> s.released + releasableAmount,
              startTime |-> s.startTime, cliff |-> s.cliff,
              duration |-> s.duration, revocable |-> s.revocable,
              revoked |-> s.revoked]

\* ------------------------------------------ client: calculateVestingRelease
\* decimals of the token as the client knows them
Decimals == 1

\* ethers.utils.formatUnits(value, decimals): the decimal numeral of
\* value / 10^decimals, given by its sign, its integer part and its
\* fractional digits (as a number of 'decimals' digits)
formatUnits(value, decimals) ==
    LET abs == IF value < 0 THEN 0 - value ELSE value
    IN  [neg |-> value < 0, whole |-> abs \div (10 ^ decimals),
         frac |-> abs % (10 ^ decimals)]

\* the literal '0' the client returns without formatting
ZeroText == [neg |-> FALSE, whole |-> 0, frac |-> 0]

\* the amount, in the token's smallest unit, that a numeral stands for
unitsValue(text, decimals) ==
    (IF text.neg THEN -1 ELSE 1) * (text.whole * (10 ^ decimals) + text.frac)

\* calculateVestingRelease(schedule, currentTime), in BigInt arithmetic
\* (unbounded); progress is the fraction num/den in percent
calculateVestingRelease(s, currentTime) ==
    IF currentTime < s.startTime + s.cliff
    THEN [total |-> formatUnits(s.totalAmount, Decimals),
          vested |-> ZeroText,
          claimed |-> formatUnits(s.released, Decimals),
          claimable |-> ZeroText,
          locked |-> formatUnits(s.totalAmount, Decimals),
          progress |-> [num |-> 0, den |-> 1]]
    ELSE IF currentTime >= s.startTime + s.duration
    THEN [total |-> formatUnits(s.totalAmount, Decimals),
          vested |-> formatUnits(s.totalAmount, Decimals),
          claimed |-> formatUnits(s.released, Decimals),
          claimable |-> formatUnits(s.totalAmount - s.released, Decimals),
          locked |-> ZeroText,
          progress |-> [num |-> 100, den |-> 1]]
    ELSE LET timeElapsed == currentTime - s.startTime
             vestedWei == (s.totalAmount * timeElapsed) \div s.duration
             claimableWei == vestedWei - s.released
             lockedWei == s.totalAmount - vestedWei
         IN  [total |-> formatUnits(s.totalAmount, Decimals),
              vested |-> formatUnits(vestedWei, Decimals),
              claimed |-> formatUnits(s.released, Decimals),
              claimable |-> formatUnits(IF claimableWei > 0 THEN claimableWei ELSE 0,
                                        Decimals),
              locked |-> formatUnits(lockedWei, Decimals),
              progress |-> IF timeElapsed * 100 > 100 * s.duration
                           THEN [num |-> 100, den |-> 1]
                           ELSE [num |-> timeElapsed * 100, den |-> s.duration]]

\* ------------------------------------- the view functions on their own
\* The view functions are pure functions of one stored record and the
\* block time.  Here the record and the time are drawn from bounded sets
\* that are wider than what the transactions can store: amounts up to the
\* top of the uint range, released above and below the vested amount.
MathMaxDuration == 4

MathAmounts == {1, 2, 3, UintMod \div 2, UintMod - 1}

MathSchedules ==
    {s \in [beneficiary : {"alice"}, token : Tokens, totalAmount : MathAmounts,
            released : {0} \cup MathAmounts, startTime : 0..1,
            cliff : 0..MathMaxDuration, duration : 1..MathMaxDuration,
            revocable : {TRUE}, revoked : BOOLEAN] :
        s.cliff <= s.duration}

InitMath ==
    \E s \in MathSchedules :
        LET held == IF s.revoked \/ s.released > s.totalAmount THEN 0
                    ELSE s.totalAmount - s.released
        IN  /\ vestingSchedules = store(<<>>, 0, s)
            /\ beneficiarySchedules =
                   [a \in Callers |-> IF a = s.beneficiary THEN <<0>> ELSE <<>>]
            /\ vestingSchedulesCount = 1
            /\ totalLockedTokens = [k \in Tokens |-> held]
            /\ paused = FALSE
            /\ balances = [k \in Tokens |-> [h \in Holders |->
                               IF h = Contract THEN held ELSE 0]]
            /\ now = 0
            /\ call = Idle
            /\ audit = NoAudit
            /\ wallet = NoWallet

\* one view call is evaluated and its result kept
ViewComputeReleasableAmount ==
    /\ call = Idle
    /\ call' = [fn |-> "computeReleasableAmount", out |-> computeReleasableAmount(0)]
    /\ UNCHANGED <<ledger, now>>

ViewGetVestingInfo ==
    /\ call = Idle
    /\ call' = [fn |-> "getVestingInfo", out |-> getVestingInfo(0)]
    /\ UNCHANGED <<ledger, now>>

ViewCalculateVestingRelease ==
    /\ call = Idle
    /\ call' = [fn |-> "calculateVestingRelease",
                out |-> calculateVestingRelease(schedule(0), now)]
    /\ UNCHANGED <<ledger, now>>

\* the block time moves on between view calls
MathTick ==
    /\ now < MaxTime
    /\ now' = now + 1
    /\ call' = Idle
    /\ UNCHANGED ledger

NextMath ==
    /\ \/ ViewComputeReleasableAmount
       \/ ViewGetVestingInfo
       \/ ViewCalculateVestingRelease
       \/ MathTick
    /\ audit' = audit
    /\ wallet' = wallet

SpecMath == InitMath /\ [][NextMath]_vars

\* the multiplication of the linear regime stays within the uint range
ProductInRange(s, t) ==
    (t >= s.startTime /\ t < s.startTime + s.duration)
        => s.totalAmount * (t - s.startTime) < UintMod

\* what the contract reports as vested: released + releasable
ContractVested == schedule(0).released + _computeReleasableAmount(schedule(0), now)

\* C24: the vesting math matches the reference on bounded inputs.  For every
\* stored record with released <= vested and every time at which
\* totalAmount * (now - startTime) stays within the uint range (products
\* beyond it are C26's subject), released + _computeReleasableAmount and the
\* vested field of getVestingInfo equal the reference value: 0 before
\* startTime + cliff, totalAmount from startTime + duration on, and
\* floor(totalAmount * (now - startTime) / duration) in between; the
\* client's calculateVestingRelease reports the same value as vested (for
\* every input, its arithmetic being unbounded).  At startTime + duration the
\* value is exactly totalAmount, and at half the duration it is
\* floor(totalAmount / 2) (the 1_000_000 over 31_536_000 s example, scaled).
C24_VestedMatchesReference ==
    LET s == schedule(0)
        ref == VestedRef(s, now)
        half == (now - s.startTime) * 2 = s.duration /\ now >= s.startTime + s.cliff
    IN  /\ (s.released <= ref /\ ProductInRange(s, now)) =>
               /\ ContractVested = ref
               /\ (call.fn = "getVestingInfo" /\ ~s.revoked) =>
                      call.out.revert = "ok" /\ call.out.vested = ref
               /\ now = s.startTime + s.duration => ContractVested = s.totalAmount
               /\ half => ContractVested = s.totalAmount \div 2
        /\ call.fn = "calculateVestingRelease" =>
               /\ unitsValue(call.out.vested, Decimals) = ref
               /\ now = s.startTime + s.duration =>
                      unitsValue(call.out.vested, Decimals) = s.totalAmount
               /\ half => unitsValue(call.out.vested, Decimals) = s.totalAmount \div 2

\* C24 witness: getVestingInfo evaluated in the linear regime where the
\* division rounds down: 3 tokens, half of the duration gone, 1 vested.
C24_Witness ==
    /\ call.fn = "getVestingInfo"
    /\ ~schedule(0).revoked
    /\ schedule(0).totalAmount = 3
    /\ schedule(0).released = 1
    /\ (now - schedule(0).startTime) * 2 = schedule(0).duration
    /\ now >= schedule(0).startTime + schedule(0).cliff
    /\ call.out.revert = "ok"
    /\ call.out.vested = 1
    /\ call.out.releasable = 0

\* C25 as claimed: for a fixed stored record the vested amount the contract
\* computes (released + _computeReleasableAmount) never goes down as the
\* block time goes up.
C25_VestedMonotone ==
    [][(MathTick /\ ~schedule(0).revoked
        /\ schedule(0).released <= VestedRef(schedule(0), now))
           => ContractVested' >= ContractVested]_vars

\* Where the claim does hold: as long as totalAmount * (now - startTime)
\* stays within the uint range at both times.
C25_MonotoneInRange ==
    [][(MathTick /\ ~schedule(0).revoked
        /\ schedule(0).released <= VestedRef(schedule(0), now)
        /\ ProductInRange(schedule(0), now)
        /\ ProductInRange(schedule(0), now'))
           => ContractVested' >= ContractVested]_vars

\* C26 as claimed: in the linear regime the product totalAmount *
\* (now - startTime) is formed without wrap-around: for every stored record
\* (released <= vested) getVestingInfo does not fail and its vested field is
\* floor(totalAmount * (now - startTime) / duration), also when the product
\* is 2^w or more.
C26_WidenedProduct ==
    LET s == schedule(0)
    IN  (/\ call.fn = "getVestingInfo"
         /\ ~s.revoked
         /\ now >= s.startTime + s.cliff
         /\ now < s.startTime + s.duration
         /\ s.released <= VestedRef(s, now)) =>
            /\ call.out.revert = "ok"
            /\ call.out.vested = (s.totalAmount * (now - s.startTime)) \div s.duration

C28_RevokedReleasableZero ==
    schedule(0).revoked =>
        /\ call.fn = "computeReleasableAmount" => call.out = 0
        /\ call.fn = "getVestingInfo" =>
               call.out.revert = "ok" /\ call.out.releasable = 0
        /\ call.fn = "calculateVestingRelease" =>
               unitsValue(call.out.claimable, Decimals) = 0

\* The part of C28 that the contract keeps: its two view functions report 0
\* for a revoked record.
C28_ContractPart ==
    schedule(0).revoked =>
        /\ call.fn = "computeReleasableAmount" => call.out = 0
        /\ call.fn = "getVestingInfo" =>
               call.out.revert = "ok" /\ call.out.releasable = 0

\* ============================================ execution followed by steps
\* release and revoke hand control to the token contract at every
\* safeTransfer (lines 315, 340, 347).  Here a transaction is followed from
\* one outbound transfer to the next: while it is stopped at a transfer the
\* token may return, may fail, or may pass control to an account that calls
\* back into the vesting contract.  call holds the stopped transaction.

\* the transaction stopped at the outbound transfer pc of fn(vestingId):
\* amount is being sent to to, paid was sent by earlier transfers of the
\* same transaction, refunds counts its refund transfers made so far, pre is
\* the ledger when the transaction began, inner the last call made from
\* inside the transfer
Frame(fn, vestingId, pc, to, amount, paid, refunds, pre) ==
    [fn |-> fn, id |-> vestingId, pc |-> pc, to |-> to, amount |-> amount,
     paid |-> paid, refunds |-> refunds, pre |-> pre, inner |-> Idle]

\* a transaction that ended: fn is "done" or "reverted", op what it was
Ended(fn, op, vestingId, pc, paid, refunds, pre) ==
    [fn |-> fn, op |-> op, id |-> vestingId, pc |-> pc, paid |-> paid,
     refunds |-> refunds, pre |-> pre]

NoTransaction == call.fn \in {"none", "done", "reverted"}
InTransfer == call.fn \in {"release", "revoke"}

\* Faulty variant of revertTo: only the failing transfer is undone, what the
\* transaction wrote and sent before it stays.
revertTo_failedTransferOnly(pre, op, vestingId, pc, paid, refunds) ==
    /\ call' = Ended("reverted", op, vestingId, pc, paid, refunds, pre)
    /\ UNCHANGED <<ledger, now>>

\* A revert (a failed require, a checked-arithmetic panic, or SafeERC20
\* raising on a transfer that reverts or returns false) is not caught
\* anywhere in the contract: the transaction ends and the ledger is the one
\* it began with.
revertTo(pre, op, vestingId, pc, paid, refunds) ==
    /\ vestingSchedules' = pre.vs
    /\ beneficiarySchedules' = pre.bs
    /\ vestingSchedulesCount' = pre.count
    /\ totalLockedTokens' = pre.locked
    /\ balances' = pre.bal
    /\ call' = Ended("reverted", op, vestingId, pc, paid, refunds, pre)
    /\ UNCHANGED <<paused, now>>

\* release, lines 299-315: the modifiers, the requires and the two writes,
\* up to the transfer to the beneficiary
releaseEnter(sender, vestingId) ==
    LET s == schedule(vestingId)
        releasableAmount == _computeReleasableAmount(s, now)
    IN  /\ NoTransaction
        /\ IF releaseRevert(sender, vestingId) \in {"ok", "ERC20InsufficientBalance"}
           THEN /\ vestingSchedules' =
                       [vestingSchedules EXCEPT ![vestingId].released = @ + releasableAmount]
                /\ totalLockedTokens' =
                       [totalLockedTokens EXCEPT ![s.token] = @ - releasableAmount]
                /\ call' = Frame("release", vestingId, "transfer", s.beneficiary,
                                 releasableAmount, 0, 0, LedgerState)
                /\ UNCHANGED <<beneficiarySchedules, vestingSchedulesCount,
                               paused, balances, now>>
           ELSE UNCHANGED vars

\* revoke, line 350 and the return
revokeFinish(vestingId, pre, paid, refunds) ==
    /\ vestingSchedules' = [vestingSchedules EXCEPT ![vestingId].revoked = TRUE]
    /\ call' = Ended("done", "revoke", vestingId, "end", paid, refunds, pre)
    /\ UNCHANGED totalLockedTokens

\* revoke, line 344: the checked subtraction totalAmount - released and the
\* checked lowering of the locked total (line 346) panic on underflow
revokeRefundPanics(vestingId) ==
    LET s == schedule(vestingId)
    IN  \/ s.totalAmount < s.released
        \/ /\ s.totalAmount > s.released
           /\ totalLockedTokens[s.token] < s.totalAmount - s.released

\* revoke, lines 344-347: the refund is computed from released as it is now,
\* the locked total is lowered, and the refund transfer to the owner begins
revokeRefund(vestingId, pre, paid) ==
    LET s == schedule(vestingId)
        refund == s.totalAmount - s.released
    IN  IF refund > 0
        THEN /\ totalLockedTokens' = [totalLockedTokens EXCEPT ![s.token] = @ - refund]
             /\ call' = Frame("revoke", vestingId, "refund", Owner, refund, paid, 0, pre)
             /\ UNCHANGED vestingSchedules
        ELSE revokeFinish(vestingId, pre, paid, 0)

\* revoke, lines 324-340: the modifiers, the requires, and when something is
\* releasable the raise of released, up to the transfer to the beneficiary;
\* otherwise on to the refund
revokeEnter(sender, vestingId) ==
    LET s == schedule(vestingId)
        releasableAmount == _computeReleasableAmount(s, now)
    IN  /\ NoTransaction
        /\ IF \/ sender # Owner
              \/ ~s.revocable
              \/ s.revoked
              \/ s.beneficiary = ZERO
              \/ (releasableAmount > 0 /\ s.released + releasableAmount >= UintMod)
           THEN UNCHANGED vars
           ELSE IF releasableAmount > 0
           THEN /\ vestingSchedules' =
                       [vestingSchedules EXCEPT ![vestingId].released = @ + releasableAmount]
                /\ call' = Frame("revoke", vestingId, "payout", s.beneficiary,
                                 releasableAmount, 0, 0, LedgerState)
                /\ UNCHANGED <<beneficiarySchedules, vestingSchedulesCount,
                               totalLockedTokens, paused, balances, now>>
           ELSE IF revokeRefundPanics(vestingId)
           THEN UNCHANGED vars
           ELSE /\ revokeRefund(vestingId, LedgerState, 0)
                /\ UNCHANGED <<beneficiarySchedules, vestingSchedulesCount,
                               paused, balances, now>>

\* the token's transfer returns true: the amount has moved and the
\* transaction runs on to its next transfer or to its end
transferReturns ==
    LET s == schedule(call.id)
        sent == move(balances, s.token, Contract, call.to, call.amount)
    IN  /\ InTransfer
        /\ balanceOf(s.token) >= call.amount
        /\ IF call.pc = "payout" /\ revokeRefundPanics(call.id)
           THEN revertTo(call.pre, call.fn, call.id, call.pc,
                         call.paid + call.amount, call.refunds)
           ELSE /\ balances' = sent
                /\ CASE call.pc = "payout" ->
                            revokeRefund(call.id, call.pre, call.paid + call.amount)
                     [] call.pc = "refund" ->
                            revokeFinish(call.id, call.pre, call.paid + call.amount,
                                         call.refunds + 1)
                     [] call.pc = "transfer" ->
                            /\ call' = Ended("done", "release", call.id, "end",
                                             call.paid + call.amount, 0, call.pre)
                            /\ UNCHANGED <<vestingSchedules, totalLockedTokens>>
                /\ UNCHANGED <<beneficiarySchedules, vestingSchedulesCount,
                               paused, now>>

\* the token's transfer reverts or returns false (the balance is short, the
\* token is paused, the recipient is blocked): safeTransfer reverts
transferFails ==
    /\ InTransfer
    /\ revertTo(call.pre, call.fn, call.id, call.pc, call.paid, call.refunds)

\* Calls made from inside the transfer.  release is nonReentrant
\* whenNotPaused and revoke onlyOwner nonReentrant (modifiers run in that
\* order); the guard is entered while either of them is stopped.  The view
\* functions carry no guard.
reenterRelease(sender, vestingId) ==
    /\ InTransfer
    /\ call' = [call EXCEPT !.inner =
                   [fn |-> "release", id |-> vestingId,
                    revert |-> "ReentrancyGuardReentrantCall"]]
    /\ UNCHANGED <<ledger, now>>

reenterRevoke(sender, vestingId) ==
    /\ InTransfer
    /\ call' = [call EXCEPT !.inner =
                   [fn |-> "revoke", id |-> vestingId,
                    revert |-> IF sender # Owner THEN "OwnableUnauthorizedAccount"
                               ELSE "ReentrancyGuardReentrantCall"]]
    /\ UNCHANGED <<ledger, now>>

reenterGetVestingInfo(vestingId) ==
    /\ InTransfer
    /\ call' = [call EXCEPT !.inner =
                   [fn |-> "getVestingInfo", id |-> vestingId,
                    out |-> getVestingInfo(vestingId)]]
    /\ UNCHANGED <<ledger, now>>

StepTick ==
    /\ NoTransaction
    /\ AdvanceTime
    /\ call' = Idle

StepCreate ==
    /\ NoTransaction
    /\ CreateCall
    /\ call' = Idle

StepBatch ==
    /\ NoTransaction
    /\ BatchCall
    /\ call' = Idle

ReleaseEnter == \E c \in Callers, id \in Ids : releaseEnter(c, id)

RevokeEnter == \E c \in Callers, id \in Ids : revokeEnter(c, id)

TransferReturns == transferReturns

TransferFails == transferFails

ReenterRelease == \E c \in Callers, id \in Ids : reenterRelease(c, id)

ReenterRevoke == \E c \in Callers, id \in Ids : reenterRevoke(c, id)

ReenterGetVestingInfo == \E id \in Ids : reenterGetVestingInfo(id)

NextSteps ==
    /\ \/ StepTick
       \/ StepCreate
       \/ StepBatch
       \/ ReleaseEnter
       \/ RevokeEnter
       \/ TransferReturns
       \/ TransferFails
       \/ ReenterRelease
       \/ ReenterRevoke
       \/ ReenterGetVestingInfo
    /\ audit' = audit
    /\ wallet' = wallet

SpecSteps == Init /\ [][NextSteps]_vars

\* the ledger a completed transaction leaves equals the one the same call
\* leaves when it is taken as a single step
StepsAgreeWithCalls ==
    (call.fn = "done") =>
        LET s0 == call.pre.vs[call.id]
            r == _computeReleasableAmount(s0, now)
        IN  IF call.op = "release"
            THEN /\ vestingSchedules =
                        [call.pre.vs EXCEPT ![call.id].released = @ + r]
                 /\ totalLockedTokens = [call.pre.locked EXCEPT ![s0.token] = @ - r]
                 /\ balances = move(call.pre.bal, s0.token, Contract, s0.beneficiary, r)
            ELSE /\ vestingSchedules =
                        [call.pre.vs EXCEPT ![call.id].released = @ + r,
                                            ![call.id].revoked = TRUE]
                 /\ totalLockedTokens =
                        [call.pre.locked EXCEPT ![s0.token] = @ - refundAmount(s0, r)]
                 /\ balances = move(move(call.pre.bal, s0.token, Contract,
                                         s0.beneficiary, r),
                                    s0.token, Contract, Owner, refundAmount(s0, r))

\* create and batch inputs whose transferFrom is reached
CustodyErrors == {"ERC20InsufficientBalance", "ERC20InsufficientAllowance"}

\* C22: when a custody transfer made by createVestingSchedule,
\* batchCreateVestingSchedules, release or revoke fails, the whole call
\* fails and the ledger (records, released, revoked, locked totals, index,
\* count, balances, so also the earlier transfers of the same call) is the
\* one the call began with: a transaction stopped at a transfer carries the
\* ledger it began with, keeps it while it is stopped, and ends on a failing
\* transfer with exactly that ledger; a create or batch whose transferFrom
\* fails changes nothing.
C22_AllOrNothing ==
    [][/\ (NoTransaction /\ call'.fn \in {"release", "revoke"})
              => call'.pre = LedgerState
       /\ (InTransfer /\ call'.fn \in {"release", "revoke"})
              => call'.pre = call.pre
       /\ (InTransfer /\ call'.fn = "reverted")
              => /\ LedgerState' = call.pre
                 /\ paused' = paused
       /\ (NoTransaction /\ ledger' # ledger /\ call'.fn = "none")
              => /\ \A a \in ValidCreateArgs \cup InvalidCreateArgs :
                        createRevert(Owner, a) \in CustodyErrors
                            => ~createVestingSchedule(Owner, a)
                 /\ \A a \in ValidBatchArgs \cup InvalidBatchArgs :
                        batchRevert(Owner, a) \in CustodyErrors
                            => ~batchCreateVestingSchedules(Owner, a)
      ]_vars

\* a revoke paid the beneficiary, its refund to the owner then failed, and
\* the ledger is the one before the revoke: the payout is undone too
C22_Witness ==
    /\ call.fn = "reverted"
    /\ call.op = "revoke"
    /\ call.pc = "refund"
    /\ call.paid > 0
    /\ LedgerState = call.pre
    /\ ~schedule(call.id).revoked
    /\ \E a \in ValidCreateArgs : createRevert(Owner, a) \in CustodyErrors

\* the values released, revoked and the locked total hold once the stopped
\* transaction has completed
PostValues ==
    LET s0 == call.pre.vs[call.id]
        r == _computeReleasableAmount(s0, now)
    IN  [released |-> s0.released + r,
         revoked |-> (call.fn = "revoke"),
         locked |-> call.pre.locked[s0.token]
                        - (IF call.fn = "release" THEN r ELSE refundAmount(s0, r))]

\* released, revoked and the locked total as they are now, and as
\* getVestingInfo reports them to a caller inside the transfer
HeldValues ==
    LET s == schedule(call.id)
    IN  [released |-> s.released, revoked |-> s.revoked,
         locked |-> totalLockedTokens[s.token]]

\* C29: at every outbound transfer of release or revoke the schedule's
\* released, its revoked flag and the token's locked total already hold the
\* values they have when the call has completed, and a getVestingInfo made
\* from inside the transfer reports those values.
C29_AccountingPrecedesTransfers ==
    InTransfer =>
        /\ HeldValues = PostValues
        /\ (call.inner.fn = "getVestingInfo" /\ call.inner.id = call.id)
               => /\ call.inner.out.revert = "ok"
                  /\ call.inner.out.released = PostValues.released
                  /\ call.inner.out.revoked = PostValues.revoked

\* what does hold: release writes released and the locked total before its
\* transfer; revoke has raised released before the payout and lowered the
\* locked total before the refund, with revoked still false at both
C29_ReleasePart ==
    InTransfer =>
        /\ call.fn = "release" => HeldValues = PostValues
        /\ call.fn = "revoke" =>
              /\ HeldValues.released = PostValues.released
              /\ ~HeldValues.revoked
              /\ call.pc = "refund" => HeldValues.locked = PostValues.locked
              /\ call.pc = "payout" => HeldValues.locked = call.pre.locked[schedule(call.id).token]

\* ===================================== TokenVesting.sol, the first variant
\* The contract the optimized one replaced: the same schedule record, store,
\* index and counter, no pause and no locked total (paused and
\* totalLockedTokens keep their initial values), checked arithmetic, the
\* token passed by the caller of release and revoke, and revoke without the
\* reentrancy guard.

\* checked uint256 arithmetic: the value, or Panic when it leaves the range
Panic == -1
checked(v) == IF v < 0 \/ v >= UintMod THEN Panic ELSE v

\* _computeReleasableAmount of TokenVesting.sol, lines 134-156
TokenVesting_computeReleasableAmount(s, currentTime) ==
    IF currentTime < s.startTime + s.cliff THEN 0
    ELSE IF currentTime >= s.startTime + s.duration
         THEN checked(s.totalAmount - s.released)
         ELSE LET timeElapsed == checked(currentTime - s.startTime)
                  product == checked(s.totalAmount * timeElapsed)
              IN  IF timeElapsed = Panic \/ product = Panic THEN Panic
                  ELSE checked(product \div s.duration - s.released)

TokenVesting_createRevert(sender, a) ==
    IF sender # Owner THEN "OwnableUnauthorizedAccount"
    ELSE IF a.beneficiary = ZERO THEN "Beneficiary cannot be zero address"
    ELSE IF ~(a.amount > 0) THEN "Amount must be greater than 0"
    ELSE IF ~(a.duration > 0) THEN "Duration must be greater than 0"
    ELSE IF ~(a.cliff <= a.duration) THEN "Cliff must be less than or equal to duration"
    ELSE IF a.token \notin DOMAIN balances THEN "AddressEmptyCode"
    ELSE IF balances[a.token][sender] < a.amount THEN "ERC20InsufficientBalance"
    ELSE "ok"

TokenVesting_createVestingSchedule(sender, a) ==
    LET vestingId == VestingId(a.beneficiary, a.token, a.amount, a.startTime,
                               0, vestingSchedulesCount)
    IN  /\ NoTransaction
        /\ vestingSchedulesCount < MaxSchedules
        /\ TokenVesting_createRevert(sender, a) = "ok"
        /\ balances' = move(balances, a.token, sender, Contract, a.amount)
        /\ vestingSchedules' =
               store(vestingSchedules, vestingId,
                     newSchedule(a.beneficiary, a.amount, a))
        /\ beneficiarySchedules' =
               [beneficiarySchedules EXCEPT ![a.beneficiary] = Append(@, vestingId)]
        /\ vestingSchedulesCount' = vestingSchedulesCount + 1
        /\ call' = Idle
        /\ UNCHANGED <<totalLockedTokens, paused, now>>

TokenVesting_releaseRevert(sender, vestingId, token) ==
    LET s == schedule(vestingId)
        releasableAmount == TokenVesting_computeReleasableAmount(s, now)
    IN  IF sender # s.beneficiary THEN "Only beneficiary can release"
        ELSE IF s.revoked THEN "Vesting has been revoked"
        ELSE IF releasableAmount = Panic THEN "Panic"
        ELSE IF ~(releasableAmount > 0) THEN "No tokens are due"
        ELSE IF checked(s.released + releasableAmount) = Panic THEN "Panic"
        ELSE IF balanceOf(token) < releasableAmount THEN "ERC20InsufficientBalance"
        ELSE "ok"

\* release of TokenVesting.sol, lines 163-177, taken as one step
TokenVesting_release(sender, vestingId, token) ==
    LET s == schedule(vestingId)
        releasableAmount == TokenVesting_computeReleasableAmount(s, now)
    IN  /\ NoTransaction
        /\ TokenVesting_releaseRevert(sender, vestingId, token) = "ok"
        /\ vestingSchedules' =
               [vestingSchedules EXCEPT ![vestingId].released = @ + releasableAmount]
        /\ balances' = move(balances, token, Contract, s.beneficiary, releasableAmount)
        /\ call' = Idle
        /\ UNCHANGED <<beneficiarySchedules, vestingSchedulesCount,
                       totalLockedTokens, paused, now>>

\* the stopped revoke of TokenVesting.sol also carries the token it was
\* called with
TokenVesting_Frame(vestingId, token, pc, to, amount, paid, refunds, pre) ==
    Frame("revoke", vestingId, pc, to, amount, paid, refunds, pre)
        @@ [token |-> token]

\* revoke, line 202 and the return
TokenVesting_revokeFinish(vestingId, pre, paid, refunds) ==
    /\ vestingSchedules' = [vestingSchedules EXCEPT ![vestingId].revoked = TRUE]
    /\ call' = Ended("done", "revoke", vestingId, "end", paid, refunds, pre)

\* revoke, lines 197-200: the refund is totalAmount - released as released
\* is now, and the refund transfer to the owner begins
TokenVesting_revokeRefund(vestingId, token, pre, paid, refunds) ==
    LET s == schedule(vestingId)
        refundAmt == s.totalAmount - s.released
    IN  IF refundAmt > 0
        THEN /\ call' = TokenVesting_Frame(vestingId, token, "refund", Owner,
                                           refundAmt, paid, refunds, pre)
             /\ UNCHANGED vestingSchedules
        ELSE TokenVesting_revokeFinish(vestingId, pre, paid, refunds)

\* the requires and checked operations of revoke up to its first transfer
TokenVesting_revokeRevert(sender, vestingId) ==
    LET s == schedule(vestingId)
        releasableAmount == TokenVesting_computeReleasableAmount(s, now)
    IN  IF sender # Owner THEN "OwnableUnauthorizedAccount"
        ELSE IF ~s.revocable THEN "Vesting is not revocable"
        ELSE IF s.revoked THEN "Vesting already revoked"
        ELSE IF releasableAmount = Panic THEN "Panic"
        ELSE IF checked(s.released + releasableAmount) = Panic THEN "Panic"
        ELSE "ok"

\* revoke of TokenVesting.sol, lines 184-199, up to its first transfer:
\* onlyOwner and the two requires, no reentrancy guard
TokenVesting_revokeEnter(sender, vestingId, token) ==
    LET s == schedule(vestingId)
        releasableAmount == TokenVesting_computeReleasableAmount(s, now)
    IN  /\ NoTransaction
        /\ TokenVesting_revokeRevert(sender, vestingId) = "ok"
        /\ IF releasableAmount > 0
           THEN /\ vestingSchedules' =
                       [vestingSchedules EXCEPT ![vestingId].released = @ + releasableAmount]
                /\ call' = TokenVesting_Frame(vestingId, token, "payout", s.beneficiary,
                                              releasableAmount, 0, 0, LedgerState)
           ELSE TokenVesting_revokeRefund(vestingId, token, LedgerState, 0, 0)
        /\ UNCHANGED <<beneficiarySchedules, vestingSchedulesCount,
                       totalLockedTokens, paused, balances, now>>

\* the token's transfer returns: the amount has moved and revoke runs on
TokenVesting_transferReturns ==
    LET sent == move(balances, call.token, Contract, call.to, call.amount)
    IN  /\ call.fn = "revoke"
        /\ balanceOf(call.token) >= call.amount
        /\ IF call.pc = "payout" /\ checked(schedule(call.id).totalAmount
                                                - schedule(call.id).released) = Panic
           THEN revertTo(call.pre, call.fn, call.id, call.pc,
                         call.paid + call.amount, call.refunds)
           ELSE /\ balances' = sent
                /\ IF call.pc = "payout"
                   THEN TokenVesting_revokeRefund(call.id, call.token, call.pre,
                                                  call.paid + call.amount, call.refunds)
                   ELSE TokenVesting_revokeFinish(call.id, call.pre,
                                                  call.paid + call.amount,
                                                  call.refunds + 1)
                /\ UNCHANGED <<beneficiarySchedules, vestingSchedulesCount,
                               totalLockedTokens, paused, now>>

\* the token's transfer reverts or returns false
TokenVesting_transferFails ==
    /\ call.fn = "revoke"
    /\ revertTo(call.pre, call.fn, call.id, call.pc, call.paid, call.refunds)

\* what a revoke called from inside the transfer does when it runs to its
\* end without being re-entered itself: the reason it reverts with, or "ok"
TokenVesting_innerRevokeRevert(sender, vestingId, token) ==
    LET s == schedule(vestingId)
        releasableAmount == TokenVesting_computeReleasableAmount(s, now)
        refundAmt == s.totalAmount - (s.released + releasableAmount)
    IN  IF TokenVesting_revokeRevert(sender, vestingId) # "ok"
        THEN TokenVesting_revokeRevert(sender, vestingId)
        ELSE IF balanceOf(token) < releasableAmount THEN "ERC20InsufficientBalance"
        ELSE IF refundAmt < 0 THEN "Panic"
        ELSE IF balanceOf(token) - releasableAmount < refundAmt
             THEN "ERC20InsufficientBalance"
        ELSE "ok"

\* revoke called from inside a transfer of a stopped revoke: nothing but
\* onlyOwner and the two requires stands in its way
TokenVesting_reenterRevoke(sender, vestingId, token) ==
    LET s == schedule(vestingId)
        releasableAmount == TokenVesting_computeReleasableAmount(s, now)
        refundAmt == s.totalAmount - (s.released + releasableAmount)
        err == TokenVesting_innerRevokeRevert(sender, vestingId, token)
        same == vestingId = call.id
    IN  /\ call.fn = "revoke"
        /\ IF err = "ok"
           THEN /\ vestingSchedules' =
                       [vestingSchedules EXCEPT
                           ![vestingId].released = @ + releasableAmount,
                           ![vestingId].revoked = TRUE]
                /\ balances' = move(move(balances, token, Contract, s.beneficiary,
                                         releasableAmount),
                                    token, Contract, Owner, refundAmt)
                /\ call' = [call EXCEPT
                       !.inner = [fn |-> "revoke", id |-> vestingId, revert |-> "ok"],
                       !.paid = @ + (IF same THEN releasableAmount + refundAmt ELSE 0),
                       !.refunds = @ + (IF same /\ refundAmt > 0 THEN 1 ELSE 0)]
           ELSE /\ call' = [call EXCEPT
                       !.inner = [fn |-> "revoke", id |-> vestingId, revert |-> err]]
                /\ UNCHANGED <<vestingSchedules, balances>>
        /\ UNCHANGED <<beneficiarySchedules, vestingSchedulesCount,
                       totalLockedTokens, paused, now>>

LegacyTick ==
    /\ NoTransaction
    /\ AdvanceTime
    /\ call' = Idle

LegacyCreate ==
    \E a \in ValidCreateArgs \cup InvalidCreateArgs :
        TokenVesting_createVestingSchedule(Owner, a)

LegacyRelease ==
    \E c \in Users, id \in Ids, t \in Tokens : TokenVesting_release(c, id, t)

LegacyRevokeEnter ==
    \E id \in Ids, t \in Tokens : TokenVesting_revokeEnter(Owner, id, t)

LegacyTransferReturns == TokenVesting_transferReturns

LegacyTransferFails == TokenVesting_transferFails

LegacyReenterRevoke ==
    \E c \in Callers, id \in Ids, t \in Tokens : TokenVesting_reenterRevoke(c, id, t)

NextLegacy ==
    /\ \/ LegacyTick
       \/ LegacyCreate
       \/ LegacyRelease
       \/ LegacyRevokeEnter
       \/ LegacyTransferReturns
       \/ LegacyTransferFails
       \/ LegacyReenterRevoke
    /\ audit' = audit
    /\ wallet' = wallet

SpecLegacy == Init /\ [][NextLegacy]_vars

\* C30: a schedule is revoked at most once, in either variant: a revoke
\* called from inside a transfer of a revoke of the same id never succeeds,
\* a revoke transfers the refund for its schedule at most once, and what
\* the schedule has paid out in all (released before the revoke plus what
\* the revoke sent to the beneficiary and to the owner) never exceeds its
\* totalAmount.
C30_RevokedAtMostOnce ==
    /\ (call.fn = "revoke" /\ call.inner.fn = "revoke" /\ call.inner.id = call.id)
           => call.inner.revert # "ok"
    /\ (call.fn = "revoke" \/ (call.fn = "done" /\ call.op = "revoke"))
           => /\ call.refunds <= 1
              /\ call.pre.vs[call.id].released + call.paid
                     <= call.pre.vs[call.id].totalAmount

\* the state the first variant reaches: a revoke completed after a revoke
\* of the same id succeeded from inside its refund transfer; the refund was
\* transferred twice and the schedule paid out more than its totalAmount
C30_DoubleRefund ==
    /\ call.fn = "done"
    /\ call.op = "revoke"
    /\ call.refunds = 2
    /\ call.pre.vs[call.id].released + call.paid > call.pre.vs[call.id].totalAmount

\* ============================================== ids as keccak256 digests
\* Above, an id is named by the counter value in its preimage, which makes
\* ids distinct by construction.  The collision check of line 121 is about
\* the other case, so here the digest of each (fresh) preimage is any value
\* of a small digest space and two schedules may be given the same id.
HashSlots == 2
Digests == 0..(HashSlots - 1)

\* the revert reason of createVestingSchedule(a) when keccak256 yields
\* vestingId, or "ok" (lines 99-127)
createRevertAt(sender, a, vestingId) ==
    IF sender # Owner THEN "OwnableUnauthorizedAccount"
    ELSE IF paused THEN "EnforcedPause"
    ELSE IF a.beneficiary = ZERO THEN "Zero address"
    ELSE IF a.token = ZERO THEN "Invalid token"
    ELSE IF a.amount = 0 THEN "Zero amount"
    ELSE IF a.duration = 0 THEN "Zero duration"
    ELSE IF a.cliff > a.duration THEN "Cliff > duration"
    ELSE IF a.startTime < now THEN "Start time in past"
    ELSE IF schedule(vestingId).beneficiary # ZERO THEN "ID collision"
    ELSE IF balances[a.token][sender] < a.amount THEN "ERC20InsufficientBalance"
    ELSE IF totalLockedTokens[a.token] + a.amount >= UintMod THEN "Panic"
    ELSE "ok"

\* createVestingSchedule(a) when keccak256 yields vestingId
createVestingScheduleAt(sender, a, vestingId) ==
    LET err == createRevertAt(sender, a, vestingId)
    IN  /\ vestingSchedulesCount < MaxSchedules
        /\ call' = [fn |-> "createVestingSchedule", ids |-> <<vestingId>>,
                    revert |-> err]
        /\ IF err = "ok"
           THEN /\ balances' = move(balances, a.token, sender, Contract, a.amount)
                /\ totalLockedTokens' =
                       [totalLockedTokens EXCEPT ![a.token] = @ + a.amount]
                /\ vestingSchedules' =
                       store(vestingSchedules, vestingId,
                             newSchedule(a.beneficiary, a.amount, a))
                /\ beneficiarySchedules' =
                       [beneficiarySchedules EXCEPT ![a.beneficiary] = Append(@, vestingId)]
                /\ vestingSchedulesCount' = vestingSchedulesCount + 1
                /\ UNCHANGED <<paused, now>>
           ELSE UNCHANGED <<ledger, now>>

\* the creation loop of batchCreateVestingSchedules (lines 195-245) from
\* entry i on, when keccak256 yields ids[i] for entry i: the record is
\* written under the id without a look at what the store holds there
RECURSIVE batchLoopAt(_, _, _, _, _, _)
batchLoopAt(a, i, vs, bs, count, ids) ==
    IF i > Len(a.beneficiaries)
    THEN [vs |-> vs, bs |-> bs, count |-> count]
    ELSE LET beneficiary == a.beneficiaries[i]
             amount == a.amounts[i]
         IN  batchLoopAt(a, i + 1,
                 store(vs, ids[i], newSchedule(beneficiary, amount, a)),
                 [bs EXCEPT ![beneficiary] = Append(@, ids[i])],
                 count + 1, ids)

\* batchCreateVestingSchedules(a) when keccak256 yields ids
batchCreateVestingSchedulesAt(sender, a, ids) ==
    LET err == batchRevert(sender, a)
        totalAmount == sum(a.amounts)
        done == batchLoopAt(a, 1, vestingSchedules, beneficiarySchedules,
                            vestingSchedulesCount, ids)
    IN  /\ vestingSchedulesCount + Len(a.beneficiaries) <= MaxSchedules
        /\ call' = [fn |-> "batchCreateVestingSchedules", ids |-> ids, revert |-> err]
        /\ IF err = "ok"
           THEN /\ balances' = move(balances, a.token, sender, Contract, totalAmount)
                /\ totalLockedTokens' =
                       [totalLockedTokens EXCEPT ![a.token] = @ + totalAmount]
                /\ vestingSchedules' = done.vs
                /\ beneficiarySchedules' = done.bs
                /\ vestingSchedulesCount' = done.count
                /\ UNCHANGED <<paused, now>>
           ELSE UNCHANGED <<ledger, now>>

HashTick ==
    /\ AdvanceTime
    /\ call' = Idle

HashCreate ==
    \E a \in ValidCreateArgs \cup InvalidCreateArgs, id \in Digests :
        createVestingScheduleAt(Owner, a, id)

HashBatch ==
    \E a \in ValidBatchArgs \cup InvalidBatchArgs :
        \E ids \in [1..Len(a.beneficiaries) -> Digests] :
            batchCreateVestingSchedulesAt(Owner, a, ids)

NextHash ==
    /\ \/ HashTick
       \/ HashCreate
       \/ HashBatch
    /\ audit' = audit
    /\ wallet' = wallet

SpecHash == Init /\ [][NextHash]_vars

\* the ids generated by the creation call of this step that the store
\* already held before it
CollidingIds ==
    {call'.ids[i] : i \in 1..Len(call'.ids)} \cap
        {id \in DOMAIN vestingSchedules : vestingSchedules[id].beneficiary # ZERO}

\* C31: whenever the id generated by createVestingSchedule or by an entry
\* of batchCreateVestingSchedules is already present in the store, the call
\* fails with "ID collision" and the existing record, the index and the
\* locked total are unchanged.
C31_NoSilentOverwrite ==
    [][(/\ call'.fn \in {"createVestingSchedule", "batchCreateVestingSchedules"}
        /\ call'.revert \in {"ok", "ID collision"}
        /\ CollidingIds # {})
           => /\ call'.revert = "ID collision"
              /\ UNCHANGED ledger]_vars

\* what does hold: createVestingSchedule never overwrites
C31_CreatePart ==
    [][(/\ call'.fn = "createVestingSchedule"
        /\ call'.revert \in {"ok", "ID collision"}
        /\ CollidingIds # {})
           => /\ call'.revert = "ID collision"
              /\ UNCHANGED ledger]_vars

\* C32: a schedule, once created, is never deleted, and its token,
\* totalAmount, startTime, cliff, duration and revocable fields are never
\* changed by a later operation.
C32_SchedulesPermanent ==
    [][(vestingSchedules' # vestingSchedules) =>
          \A id \in DOMAIN vestingSchedules :
              /\ id \in DOMAIN vestingSchedules'
              /\ vestingSchedules'[id].token = vestingSchedules[id].token
              /\ vestingSchedules'[id].totalAmount = vestingSchedules[id].totalAmount
              /\ vestingSchedules'[id].startTime = vestingSchedules[id].startTime
              /\ vestingSchedules'[id].cliff = vestingSchedules[id].cliff
              /\ vestingSchedules'[id].duration = vestingSchedules[id].duration
              /\ vestingSchedules'[id].revocable = vestingSchedules[id].revocable]_vars

\* the first schedule has been released from and revoked, a second
\* schedule was created after it started, and the first still holds the
\* amount and duration it was created with
C32_Witness ==
    /\ vestingSchedulesCount = 2
    /\ 0 \in DOMAIN vestingSchedules
    /\ 1 \in DOMAIN vestingSchedules
    /\ vestingSchedules[0].released > 0
    /\ vestingSchedules[0].revoked
    /\ vestingSchedules[1].startTime > vestingSchedules[0].startTime
    /\ vestingSchedules[0].totalAmount = MaxAmount
    /\ vestingSchedules[0].duration = MaxDuration

\* ====================================================== the event trail
\* The events each function emits (lines 57-84 and the emit statements),
\* and what an observer of the chain sees of a successful transaction: its
\* function, its events, and the tokens that reached the beneficiary and
\* the owner.  A reverted transaction leaves no event and no transfer.

\* emit VestingScheduleCreated(...), line 149
createEvents(a) ==
    <<[name |-> "VestingScheduleCreated",
       vestingId |-> VestingId(a.beneficiary, a.token, a.amount, a.startTime,
                               now, vestingSchedulesCount),
       beneficiary |-> a.beneficiary, token |-> a.token, amount |-> a.amount,
       startTime |-> a.startTime, cliff |-> a.cliff, duration |-> a.duration]>>

\* emit VestingScheduleCreated(...), line 236, once per entry
batchEvents(a) ==
    [i \in 1..Len(a.beneficiaries) |->
        [name |-> "VestingScheduleCreated",
         vestingId |-> VestingId(a.beneficiaries[i], a.token, a.amounts[i],
                                 a.startTime, now, vestingSchedulesCount + i - 1),
         beneficiary |-> a.beneficiaries[i], token |-> a.token,
         amount |-> a.amounts[i], startTime |-> a.startTime, cliff |-> a.cliff,
         duration |-> a.duration]]

\* emit TokensReleased(vestingId, schedule.beneficiary, token,
\* releasableAmount), line 317
releaseEvents(vestingId) ==
    LET s == schedule(vestingId)
    IN  <<[name |-> "TokensReleased", vestingId |-> vestingId,
           beneficiary |-> s.beneficiary, token |-> s.token,
           amount |-> _computeReleasableAmount(s, now)]>>

\* emit VestingRevoked(vestingId, token, refundAmount), line 352: the only
\* event of revoke
revokeEvents(vestingId) ==
    LET s == schedule(vestingId)
    IN  <<[name |-> "VestingRevoked", vestingId |-> vestingId, token |-> s.token,
           refundAmount |-> refundAmount(s, _computeReleasableAmount(s, now))]>>

\* emit BeneficiaryChanged(vestingId, oldBeneficiary, newBeneficiary), line 377
changeBeneficiaryEvents(vestingId, newBeneficiary) ==
    <<[name |-> "BeneficiaryChanged", vestingId |-> vestingId,
       oldBeneficiary |-> schedule(vestingId).beneficiary,
       newBeneficiary |-> newBeneficiary]>>

\* emergencyWithdraw, lines 494-502, has no emit statement
emergencyWithdrawEvents(token, amount) == <<>>

\* the sum of the amounts of the TokensReleased events for vestingId
RECURSIVE releasedIn(_, _)
releasedIn(events, vestingId) ==
    IF events = <<>> THEN 0
    ELSE (IF Head(events).name = "TokensReleased" /\ Head(events).vestingId = vestingId
          THEN Head(events).amount ELSE 0)
         + releasedIn(Tail(events), vestingId)

\* the observer's record after a successful transaction fn that emitted
\* events and, for schedule vestingId (if any), moved tokens to its
\* beneficiary and to the owner: the transfers are read off the balances
observed(fn, events, vestingId, beneficiary, token) ==
    [tx |-> fn,
     emitted |-> events,
     released |-> [id \in 0..MaxSchedules |->
                      audit.released[id] + releasedIn(events, id)],
     paid |-> [id \in 0..MaxSchedules |->
                  audit.paid[id]
                  + (IF id = vestingId
                     THEN balances'[token][beneficiary] - balances[token][beneficiary]
                     ELSE 0)],
     refunded |-> [id \in 0..MaxSchedules |->
                      audit.refunded[id]
                      + (IF id = vestingId
                         THEN balances'[token][Owner] - balances[token][Owner]
                         ELSE 0)]]

\* a successful transaction that pays nothing out on behalf of a schedule
logged(fn, events) ==
    [audit EXCEPT !.tx = fn, !.emitted = events,
                  !.released = [id \in 0..MaxSchedules |->
                                   audit.released[id] + releasedIn(events, id)]]

EvTick ==
    /\ AdvanceTime
    /\ UNCHANGED <<call, audit>>

EvCreate ==
    /\ vestingSchedulesCount < MaxSchedules
    /\ \E c \in Callers :
         \E a \in (IF c = Owner THEN ValidCreateArgs \cup InvalidCreateArgs
                   ELSE {BaseArgs}) :
            /\ createVestingSchedule(c, a)
            /\ call' = call
            /\ audit' = IF createRevert(c, a) = "ok"
                        THEN logged("createVestingSchedule", createEvents(a))
                        ELSE audit

EvBatch ==
    /\ vestingSchedulesCount < MaxSchedules
    /\ \E c \in Callers :
         \E a \in (IF c = Owner THEN ValidBatchArgs \cup InvalidBatchArgs
                   ELSE {BatchArgs(<<"alice">>, <<1>>, BaseArgs)}) :
            /\ batchCreateVestingSchedules(c, a)
            /\ call' = call
            /\ audit' = IF batchRevert(c, a) = "ok"
                        THEN logged("batchCreateVestingSchedules", batchEvents(a))
                        ELSE audit

EvRelease ==
    \E c \in Callers, id \in Ids :
        /\ release(c, id)
        /\ call' = call
        /\ audit' = IF releaseRevert(c, id) = "ok"
                    THEN observed("release", releaseEvents(id), id,
                                  schedule(id).beneficiary, schedule(id).token)
                    ELSE audit

EvRevoke ==
    \E c \in Callers, id \in Ids :
        /\ revoke(c, id)
        /\ call' = call
        /\ audit' = IF revokeRevert(c, id) = "ok"
                    THEN observed("revoke", revokeEvents(id), id,
                                  schedule(id).beneficiary, schedule(id).token)
                    ELSE audit

EvChangeBeneficiary ==
    \E c \in Callers, id \in Ids :
        \E b \in (IF c = Owner THEN Users \cup {ZERO} ELSE {"alice"}) :
            /\ changeBeneficiary(c, id, b)
            /\ call' = call
            /\ audit' = IF changeBeneficiaryRevert(c, id, b) = "ok"
                        THEN logged("changeBeneficiary", changeBeneficiaryEvents(id, b))
                        ELSE audit

EvEmergencyWithdraw ==
    \E c \in Callers, t \in Tokens :
        \E amount \in (IF c = Owner THEN 0..MaxAmount ELSE {0}) :
            /\ emergencyWithdraw(c, t, amount)
            /\ call' = call
            /\ audit' = IF emergencyWithdrawRevert(c, t, amount) = "ok"
                        THEN logged("emergencyWithdraw",
                                    emergencyWithdrawEvents(t, amount))
                        ELSE audit

EvDirectTransfer ==
    /\ DirectTransfer
    /\ UNCHANGED <<call, audit>>

NextEvents ==
    /\ \/ EvTick
       \/ EvCreate
       \/ EvBatch
       \/ EvRelease
       \/ EvRevoke
       \/ EvChangeBeneficiary
       \/ EvEmergencyWithdraw
       \/ EvDirectTransfer
    /\ wallet' = wallet

SpecEvents == Init /\ [][NextEvents]_vars

\* the events that identify each mutating function
EventsOf(fn) ==
    CASE fn = "createVestingSchedule" -> {"VestingScheduleCreated"}
      [] fn = "batchCreateVestingSchedules" -> {"VestingScheduleCreated"}
      [] fn = "release" -> {"TokensReleased"}
      [] fn = "revoke" -> {"VestingRevoked"}
      [] fn = "changeBeneficiary" -> {"BeneficiaryChanged"}
      [] fn = "emergencyWithdraw" -> {"EmergencyWithdrawal"}
      [] OTHER -> {}

\* C33: every successful createVestingSchedule, batchCreateVestingSchedules,
\* release, revoke, changeBeneficiary and emergencyWithdraw emits at least
\* one event that identifies it (a call that fails reverts: it is a step
\* that leaves everything, the observer's record included, as it was).
C33_EveryOperationLogged ==
    [][(audit' # audit)
           => \E i \in 1..Len(audit'.emitted) :
                  audit'.emitted[i].name \in EventsOf(audit'.tx)]_vars

\* what does hold: every successful call but emergencyWithdraw emits an
\* event of its own kind
C33_AllButSweep ==
    [][(audit' # audit /\ audit'.tx # "emergencyWithdraw")
           => \E i \in 1..Len(audit'.emitted) :
                  audit'.emitted[i].name \in EventsOf(audit'.tx)]_vars

\* C34: for every stored schedule, revoked or not, and every time,
\* getVestingInfo returns releasable = releasableAmount(schedule, now) (0
\* when revoked, else vested - released) and vested = vestedAmount(schedule,
\* now), the amount unlocked by elapsed time.  (It is a view function: it
\* writes nothing.)
C34_InfoMatchesMath ==
    \A id \in Stored :
        LET s == vestingSchedules[id]
            info == getVestingInfo(id)
        IN  /\ info.revert = "ok"
            /\ info.releasable = (IF s.revoked THEN 0 ELSE VestedRef(s, now) - s.released)
            /\ info.vested = VestedRef(s, now)

\* what does hold: releasable is as specified for every schedule, and
\* vested for the schedules that are not revoked; for a revoked schedule
\* vested is its released amount, frozen at the revocation
C34_NonRevokedPart ==
    \A id \in Stored :
        LET s == vestingSchedules[id]
            info == getVestingInfo(id)
        IN  /\ info.revert = "ok"
            /\ info.releasable = (IF s.revoked THEN 0 ELSE VestedRef(s, now) - s.released)
            /\ info.vested = (IF s.revoked THEN s.released ELSE VestedRef(s, now))

\* ======================================================== payout progress
\* The contract as in Spec, with the assumptions under which a schedule is
\* paid out: time keeps advancing (up to the horizon MaxTime, so schedules
\* are created only while their end lies within it), a paused contract is
\* eventually unpaused, and the beneficiary of a schedule keeps calling
\* release (a pause that comes and goes does not keep them out for ever).
LiveCreate ==
    /\ now + MaxDuration <= MaxTime
    /\ CreateCall

LiveBatch ==
    /\ now + MaxDuration <= MaxTime
    /\ BatchCall

\* release(id) called by the schedule's beneficiary
ReleaseByBeneficiary(id) ==
    /\ id \in Stored
    /\ release(vestingSchedules[id].beneficiary, id)
    /\ UNCHANGED <<call, audit, wallet>>

LiveTick ==
    /\ AdvanceTime
    /\ UNCHANGED <<call, audit, wallet>>

LiveUnpause ==
    /\ unpause(Owner)
    /\ UNCHANGED <<call, audit, wallet>>

NextLive ==
    /\ \/ AdvanceTime
       \/ LiveCreate
       \/ LiveBatch
       \/ ReleaseCall
       \/ RevokeCall
       \/ ChangeBeneficiaryCall
       \/ EmergencyWithdrawCall
       \/ DirectTransfer
       \/ PauseCall
       \/ UnpauseCall
    /\ call' = call
    /\ audit' = audit
    /\ wallet' = wallet

SpecLive ==
    /\ Init
    /\ [][NextLive]_vars
    /\ WF_vars(LiveTick)
    /\ WF_vars(LiveUnpause)
    /\ \A id \in 0..(MaxSchedules - 1) : SF_vars(ReleaseByBeneficiary(id))

\* a schedule that has run its full duration, is not revoked and is not
\* yet paid in full
Due(id) ==
    /\ id \in Stored
    /\ ~vestingSchedules[id].revoked
    /\ vestingSchedules[id].released < vestingSchedules[id].totalAmount
    /\ now >= vestingSchedules[id].startTime + vestingSchedules[id].duration

\* C35: whenever a non-revoked schedule with released < totalAmount has
\* reached startTime + duration and the contract is not paused, release by
\* its beneficiary does not revert (in particular not for lack of tokens)
\* and leaves released = totalAmount; and every schedule is eventually paid
\* in full unless it is revoked.
C35_FullPayoutReachable ==
    /\ [](\A id \in Stored :
             (Due(id) /\ ~paused)
                 => /\ releaseRevert(vestingSchedules[id].beneficiary, id) = "ok"
                    /\ vestingSchedules[id].released
                         + _computeReleasableAmount(vestingSchedules[id], now)
                           = vestingSchedules[id].totalAmount)
    /\ [][\A id \in Stored :
             (Due(id) /\ vestingSchedules'[id].released # vestingSchedules[id].released)
                 => vestingSchedules'[id].released = vestingSchedules[id].totalAmount]_vars
    /\ \A id \in 0..(MaxSchedules - 1) :
           (id \in Stored)
               ~> (schedule(id).revoked
                   \/ schedule(id).released = schedule(id).totalAmount)

\* a schedule that was never revoked has been paid in full after its end
\* while another is still due
C35_Witness ==
    \E id \in Stored :
        /\ ~vestingSchedules[id].revoked
        /\ vestingSchedules[id].released = vestingSchedules[id].totalAmount
        /\ now >= vestingSchedules[id].startTime + vestingSchedules[id].duration
        /\ balances[vestingSchedules[id].token][vestingSchedules[id].beneficiary]
               >= vestingSchedules[id].totalAmount
        /\ \E other \in Stored : Due(other)

\* C36: in every reachable state, for every schedule, the tokens sent to
\* beneficiaries on its behalf equal its released field, the tokens refunded
\* to the owner for it are 0 while it is not revoked and totalAmount -
\* released once it is, and the two together never exceed its totalAmount.
C36_PayoutAccounting ==
    \A id \in Stored :
        LET s == vestingSchedules[id]
        IN  /\ audit.paid[id] = s.released
            /\ audit.refunded[id] = (IF s.revoked THEN s.totalAmount - s.released ELSE 0)
            /\ audit.paid[id] + audit.refunded[id] <= s.totalAmount

\* a revoked schedule whose beneficiary was paid by a release before the
\* revoke, which refunded the rest to the owner
C36_Witness ==
    \E id \in Stored :
        /\ vestingSchedules[id].revoked
        /\ audit.tx = "revoke"
        /\ audit.paid[id] = MaxAmount - 1
        /\ audit.refunded[id] = 1
        /\ audit.released[id] > 0
        /\ audit.released[id] < audit.paid[id] + audit.refunded[id]

\* C37: for every schedule, after any sequence of operations (revoke
\* included), the amounts of its TokensReleased events add up to its
\* released field.
C37_EventsReconstructReleased ==
    \A id \in Stored : audit.released[id] = vestingSchedules[id].released

\* what does hold: the events account for released as long as the schedule
\* is not revoked, and never for more than released
C37_UntilRevoked ==
    \A id \in Stored :
        /\ audit.released[id] <= vestingSchedules[id].released
        /\ ~vestingSchedules[id].revoked
               => audit.released[id] = vestingSchedules[id].released

\* ============================= TokenVesting.sol holding two kinds of token
\* release and revoke of TokenVesting.sol transfer the token their caller
\* names, which need not be the token of the schedule.  Here the contract
\* holds schedules in two tokens and every call may name either.
TwoTokens == {"TKA", "TKB"}

InitTwoTokens ==
    /\ vestingSchedules = <<>>
    /\ beneficiarySchedules = [a \in Callers |-> <<>>]
    /\ vestingSchedulesCount = 0
    /\ totalLockedTokens = [t \in Tokens |-> 0]
    /\ paused = FALSE
    /\ balances = [t \in TwoTokens |-> [h \in Holders |->
                       IF h = Owner THEN InitialSupply ELSE 0]]
    /\ now = 0
    /\ call = Idle
    /\ audit = NoAudit
    /\ wallet = NoWallet

TwoTokensTick ==
    /\ NoTransaction
    /\ AdvanceTime
    /\ call' = Idle

TwoTokensCreate ==
    \E a \in ValidCreateArgs, t \in TwoTokens :
        TokenVesting_createVestingSchedule(Owner, [a EXCEPT !.token = t])

TwoTokensRelease ==
    \E c \in Users, id \in Ids, t \in TwoTokens : TokenVesting_release(c, id, t)

TwoTokensRevokeEnter ==
    \E id \in Ids, t \in TwoTokens : TokenVesting_revokeEnter(Owner, id, t)

TwoTokensTransferReturns == TokenVesting_transferReturns

TwoTokensTransferFails == TokenVesting_transferFails

NextTwoTokens ==
    /\ \/ TwoTokensTick
       \/ TwoTokensCreate
       \/ TwoTokensRelease
       \/ TwoTokensRevokeEnter
       \/ TwoTokensTransferReturns
       \/ TwoTokensTransferFails
    /\ audit' = audit
    /\ wallet' = wallet

SpecTwoTokens == InitTwoTokens /\ [][NextTwoTokens]_vars

\* C38: in TokenVesting.sol, between transactions, the contract's balance
\* of every token is at least the sum of totalAmount - released over the
\* non-revoked schedules of that token, after any sequence of
\* createVestingSchedule, release(vestingId, token) and revoke(vestingId,
\* token) calls, whatever token the caller names.
C38_LegacySolvency ==
    NoTransaction => \A t \in TwoTokens : balanceOf(t) >= Outstanding(t)

\* what does hold: the tokens held cover the schedules when the two kinds
\* are counted together
C38_SolventInTotal ==
    NoTransaction =>
        balanceOf("TKA") + balanceOf("TKB") >= Outstanding("TKA") + Outstanding("TKB")

\* ------------------------------------------ the client's status classifiers
\* The client labels a schedule in two places: getVestingStatus of the
\* vesting utilities and the status computed while BlockchainService loads
\* the schedules of a beneficiary.  Both are pure functions of the record
\* and the current time in seconds.

\* getVestingStatus(schedule, currentTime) of the vesting utilities
getVestingStatus(s, currentTime) ==
    IF s.revoked THEN "revoked"
    ELSE IF currentTime < s.startTime THEN "pending"
    ELSE IF currentTime >= s.startTime + s.duration THEN "completed"
    ELSE "active"

\* the status BlockchainService.getVestingSchedules gives a loaded schedule
getVestingSchedules_status(s, currentTime) ==
    IF s.revoked THEN "revoked"
    ELSE IF currentTime < s.startTime THEN "pending"
    ELSE IF currentTime < s.startTime + s.cliff THEN "pending"
    ELSE IF currentTime >= s.startTime + s.duration THEN "completed"
    ELSE "active"

\* one classifier is evaluated on the stored record at the current time
ViewGetVestingStatus ==
    /\ call = Idle
    /\ call' = [fn |-> "getVestingStatus", out |-> getVestingStatus(schedule(0), now)]
    /\ UNCHANGED <<ledger, now>>

ViewGetVestingSchedules ==
    /\ call = Idle
    /\ call' = [fn |-> "getVestingSchedules",
                out |-> getVestingSchedules_status(schedule(0), now)]
    /\ UNCHANGED <<ledger, now>>

NextStatus ==
    /\ \/ ViewGetVestingStatus
       \/ ViewGetVestingSchedules
       \/ MathTick
    /\ audit' = audit
    /\ wallet' = wallet

SpecStatus == InitMath /\ [][NextStatus]_vars

\* the classification the four status names stand for
StatusOf(s, t) ==
    IF s.revoked THEN "revoked"
    ELSE IF t < s.startTime + s.cliff THEN "pending"
    ELSE IF t < s.startTime + s.duration THEN "active"
    ELSE "completed"

\* C39: the two client classifiers agree with each other and with the
\* classification by cliff end and vesting end: whenever either has been
\* evaluated on a record at a time, its answer is "revoked" for a revoked
\* record, else "pending" before startTime + cliff, "active" from there
\* until startTime + duration, "completed" from then on, and the other
\* classifier gives the same answer for the same record and time.
C39_StatusClassifiersAgree ==
    (call.fn \in {"getVestingStatus", "getVestingSchedules"}) =>
        /\ call.out = StatusOf(schedule(0), now)
        /\ getVestingStatus(schedule(0), now)
               = getVestingSchedules_status(schedule(0), now)

\* the part that holds: the classifier of BlockchainService follows the
\* classification on every record with cliff <= duration
C39_ServicePart ==
    (call.fn = "getVestingSchedules") => call.out = StatusOf(schedule(0), now)

\* and getVestingStatus differs from it only inside the cliff
C39_UtilityOutsideCliff ==
    (call.fn = "getVestingStatus"
        /\ ~(now >= schedule(0).startTime
             /\ now < schedule(0).startTime + schedule(0).cliff))
        => call.out = StatusOf(schedule(0), now)

\* ------------------------------------------------ the client's wallet state
\* Web3Service keeps the wallet address, the network information, the
\* connected flag and the last error in four subjects, mirrors the
\* connection in localStorage and talks to the injected provider.  Its
\* asynchronous methods run to their next await in one step; what they
\* await (the provider's answer, the network, the other services) resolves
\* in a later step, and any other call or event can come in between.

\* the null of a subject or of a localStorage entry
Null == "null"

\* the accounts the user holds in the provider
WalletAccounts == {"0xA", "0xB"}

\* the chains the provider can be on: one of the supported mapping, one not
Chains == {"0x1", "0x7a69"}

SUPPORTED_NETWORKS == {"0x1"}

isNetworkSupported(chainId) == chainId \in SUPPORTED_NETWORKS

getNetworkName(chainId) ==
    IF chainId = "0x1" THEN "Ethereum Mainnet" ELSE "Unsupported Network"

\* connectWallet calls that can be in flight at the same time
MaxCalls == 2

\* the value of the networkInfo subject when it holds null
NullNetworkInfo == [chainId |-> Null, chainName |-> Null, isSupported |-> FALSE]

NoTask == [pc |-> "idle", account |-> Null]

\* the service after its constructor ran: the subjects at their initial
\* values, the listeners installed, and _restoreConnection run up to its
\* eth_accounts request when localStorage holds a saved connection
Constructed(ethereum, web3_connected, web3_last_address, accounts, chainId) ==
    [loaded |-> TRUE,
     ethereum |-> ethereum,
     walletAddress |-> Null,
     networkInfo |-> NullNetworkInfo,
     isConnected |-> FALSE,
     error |-> Null,
     web3_connected |-> web3_connected,
     web3_last_address |-> web3_last_address,
     accounts |-> accounts,
     chainId |-> chainId,
     connectWallet |-> [i \in 1..MaxCalls |-> NoTask],
     restoreConnection |-> IF web3_connected = "true" /\ ethereum
                           THEN [pc |-> "eth_accounts", account |-> Null]
                           ELSE [pc |-> "done", account |-> Null],
     \* kept for the observer: disconnectWallet ran and no connect or
     \* restore has succeeded since
     afterDisconnect |-> FALSE]

\* a first visit: nothing saved, the site not yet permitted by the provider
InitWallet ==
    /\ vestingSchedules = <<>>
    /\ beneficiarySchedules = [a \in Callers |-> <<>>]
    /\ vestingSchedulesCount = 0
    /\ totalLockedTokens = [t \in Tokens |-> 0]
    /\ paused = FALSE
    /\ balances = [t \in Tokens |-> [h \in Holders |->
                       IF h = Owner THEN InitialSupply ELSE 0]]
    /\ now = 0
    /\ call = Idle
    /\ audit = NoAudit
    /\ \E ethereum \in BOOLEAN, chainId \in Chains :
           wallet = Constructed(ethereum, Null, Null, <<>>, chainId)

\* _handleError: the message of the error goes to the error subject
handleError(w, message) == [w EXCEPT !.error = message]

\* disconnectWallet
disconnectWallet(w) ==
    [w EXCEPT !.walletAddress = Null,
              !.networkInfo = NullNetworkInfo,
              !.isConnected = FALSE,
              !.error = Null,
              !.web3_connected = Null,
              !.web3_last_address = Null,
              !.afterDisconnect = TRUE]

\* _updateNetworkInfo after provider.getNetwork() resolved
updateNetworkInfo(w) ==
    [w EXCEPT !.networkInfo = [chainId |-> w.chainId,
                               chainName |-> getNetworkName(w.chainId),
                               isSupported |-> isNetworkSupported(w.chainId)],
              !.error = IF isNetworkSupported(w.chainId) THEN Null
                        ELSE "Unsupported network"]

\* _updateNetworkInfo after provider.getNetwork() threw
updateNetworkInfoFailed(w) ==
    [w EXCEPT !.error = "Failed to retrieve network information."]

\* connectWallet up to its eth_requestAccounts request
connectWallet(w, i) ==
    IF ~w.ethereum
    THEN handleError(w, "MetaMask is not installed")
    ELSE [w EXCEPT !.error = Null,
                   !.connectWallet[i] = [pc |-> "request", account |-> Null]]

\* connectWallet from the accounts returned to the getNetwork request of
\* _updateNetworkInfo
connectWallet_accounts(w, i, account) ==
    [w EXCEPT !.walletAddress = account,
              !.isConnected = TRUE,
              !.web3_connected = "true",
              !.web3_last_address = account,
              !.accounts = <<account>>,
              !.afterDisconnect = FALSE,
              !.connectWallet[i] = [pc |-> "network", account |-> account]]

\* connectWallet when a step threw: the catch block
connectWallet_catch(w, i, message) ==
    [handleError(w, message) EXCEPT !.connectWallet[i] = NoTask]

\* _restoreConnection from the accounts of eth_accounts to the getNetwork
\* request of _updateNetworkInfo
restoreConnection_accounts(w) ==
    IF w.accounts # <<>>
    THEN [w EXCEPT !.walletAddress = w.accounts[1],
                   !.isConnected = TRUE,
                   !.afterDisconnect = FALSE,
                   !.restoreConnection = [pc |-> "network", account |-> w.accounts[1]]]
    ELSE [w EXCEPT !.web3_connected = Null,
                   !.web3_last_address = Null,
                   !.restoreConnection = [pc |-> "done", account |-> Null]]

\* _restoreConnection when eth_accounts threw
restoreConnection_catch(w) ==
    [w EXCEPT !.web3_connected = Null,
              !.web3_last_address = Null,
              !.restoreConnection = [pc |-> "done", account |-> Null]]

\* _handleAccountsChanged up to its await
handleAccountsChanged(w, accounts) ==
    IF accounts = <<>>
    THEN disconnectWallet(w)
    ELSE [w EXCEPT !.walletAddress = accounts[1]]

\* _handleChainChanged: the connection is saved and the page reloads, which
\* constructs the service anew
handleChainChanged(w, chainId) ==
    IF w.isConnected
    THEN Constructed(w.ethereum, "true",
                     IF w.walletAddress = Null THEN "" ELSE w.walletAddress,
                     w.accounts, chainId)
    ELSE Constructed(w.ethereum, w.web3_connected, w.web3_last_address,
                     w.accounts, chainId)

\* the application calls connectWallet
ConnectWallet ==
    /\ \E i \in 1..MaxCalls :
           /\ wallet.connectWallet[i].pc = "idle"
           /\ wallet' = connectWallet(wallet, i)
    /\ UNCHANGED <<ledger, now, call, audit>>

\* eth_requestAccounts resolves: with the accounts already permitted, with
\* the account the user picks, with nothing, or with the user's rejection
RequestAccountsResolves ==
    /\ \E i \in 1..MaxCalls :
           /\ wallet.connectWallet[i].pc = "request"
           /\ \/ /\ wallet.accounts # <<>>
                 /\ wallet' = connectWallet_accounts(wallet, i, wallet.accounts[1])
              \/ /\ wallet.accounts = <<>>
                 /\ \E a \in WalletAccounts :
                        wallet' = connectWallet_accounts(wallet, i, a)
              \/ wallet' = connectWallet_catch(wallet, i,
                               "No accounts returned from MetaMask.")
              \/ wallet' = connectWallet_catch(wallet, i,
                               "Connection request rejected by user.")
    /\ UNCHANGED <<ledger, now, call, audit>>

\* provider.getNetwork() of a connectWallet call resolves or throws;
\* connectWallet goes on to BlockchainService.initialize
ConnectNetworkResolves ==
    /\ \E i \in 1..MaxCalls :
           /\ wallet.connectWallet[i].pc = "network"
           /\ \E w \in {updateNetworkInfo(wallet), updateNetworkInfoFailed(wallet)} :
                  wallet' = [w EXCEPT !.connectWallet[i].pc = "initialize"]
    /\ UNCHANGED <<ledger, now, call, audit>>

\* BlockchainService.initialize resolves or throws
ConnectInitializeResolves ==
    /\ \E i \in 1..MaxCalls :
           /\ wallet.connectWallet[i].pc = "initialize"
           /\ \/ wallet' = [wallet EXCEPT !.connectWallet[i].pc = "load"]
              \/ wallet' = connectWallet_catch(wallet, i, "initialize failed")
    /\ UNCHANGED <<ledger, now, call, audit>>

\* VestingService.loadVestingSchedules resolves or throws
ConnectLoadResolves ==
    /\ \E i \in 1..MaxCalls :
           /\ wallet.connectWallet[i].pc = "load"
           /\ \/ wallet' = [wallet EXCEPT !.connectWallet[i] = NoTask]
              \/ wallet' = connectWallet_catch(wallet, i, "loadVestingSchedules failed")
    /\ UNCHANGED <<ledger, now, call, audit>>

\* the application calls disconnectWallet
DisconnectWallet ==
    /\ wallet.loaded
    /\ wallet' = disconnectWallet(wallet)
    /\ UNCHANGED <<ledger, now, call, audit>>

\* eth_accounts of _restoreConnection resolves or throws
RestoreAccountsResolves ==
    /\ wallet.restoreConnection.pc = "eth_accounts"
    /\ \/ wallet' = restoreConnection_accounts(wallet)
       \/ wallet' = restoreConnection_catch(wallet)
    /\ UNCHANGED <<ledger, now, call, audit>>

\* provider.getNetwork() of _restoreConnection resolves or throws
RestoreNetworkResolves ==
    /\ wallet.restoreConnection.pc = "network"
    /\ \E w \in {updateNetworkInfo(wallet), updateNetworkInfoFailed(wallet)} :
           wallet' = [w EXCEPT !.restoreConnection.pc = "services"]
    /\ UNCHANGED <<ledger, now, call, audit>>

\* initialize and loadVestingSchedules of _restoreConnection end; a failure
\* is logged and changes nothing
RestoreServicesResolve ==
    /\ wallet.restoreConnection.pc = "services"
    /\ wallet' = [wallet EXCEPT !.restoreConnection = [pc |-> "done", account |-> Null]]
    /\ UNCHANGED <<ledger, now, call, audit>>

\* the user switches the account in the provider or withdraws all of them,
\* and the provider emits accountsChanged
AccountsChanged ==
    /\ wallet.ethereum
    /\ wallet.accounts # <<>>
    /\ \E accounts \in ({<<>>} \cup {<<a>> : a \in WalletAccounts}) \ {wallet.accounts} :
           wallet' = handleAccountsChanged([wallet EXCEPT !.accounts = accounts],
                                           accounts)
    /\ UNCHANGED <<ledger, now, call, audit>>

\* the user switches the chain in the provider, which emits chainChanged
ChainChanged ==
    /\ wallet.ethereum
    /\ \E chainId \in Chains \ {wallet.chainId} :
           wallet' = handleChainChanged(wallet, chainId)
    /\ UNCHANGED <<ledger, now, call, audit>>

NextWallet ==
    \/ ConnectWallet
    \/ RequestAccountsResolves
    \/ ConnectNetworkResolves
    \/ ConnectInitializeResolves
    \/ ConnectLoadResolves
    \/ DisconnectWallet
    \/ RestoreAccountsResolves
    \/ RestoreNetworkResolves
    \/ RestoreServicesResolve
    \/ AccountsChanged
    \/ ChainChanged

SpecWallet == InitWallet /\ [][NextWallet]_vars

\* isConnected is true exactly when walletAddress is non-null
AddressMatchesConnected == wallet.isConnected <=> (wallet.walletAddress # Null)

\* after disconnectWallet networkInfo is null until a connect succeeds
NetworkInfoClearedUntilConnect ==
    wallet.afterDisconnect => wallet.networkInfo = NullNetworkInfo

\* C40: the wallet state of Web3Service is coherent under every
\* interleaving of connectWallet, disconnectWallet, the connection restore
\* and the provider's accountsChanged events: in every reachable state
\* isConnected is true exactly when walletAddress is non-null, and after
\* disconnectWallet networkInfo stays null until the next successful connect.
C40_WalletStateCoherent ==
    /\ AddressMatchesConnected
    /\ NetworkInfoClearedUntilConnect

\* the half that holds: a connected service always has an address
C40_ConnectedHasAddress == wallet.isConnected => wallet.walletAddress # Null

====
